---- MODULE Spec2Model ----
(***************************************************************************)
(* Luna Health: the image-analysis pipeline (quality assessment, GPT-4     *)
(* Vision + ResNet ensemble scoring) of                                    *)
(*   luna-health-app/backend/app/services/vision_analysis.py               *)
(* and the nail hemoglobin pipeline of                                     *)
(*   backend/app/services/nail_hemoglobin_service.py                       *)
(*   backend/app/api/endpoints/health_analysis.py                          *)
(*   backend/app/services/llm_health_service.py                            *)
(*                                                                         *)
(* Numbers.  Python floats are modelled as exact fixed-point integers:     *)
(* a score s in [0,1] is the integer s * ONE; a hemoglobin value v (g/L)   *)
(* is the integer v * HbScale.  The units are chosen so that every mean    *)
(* the code takes is an exact integer division; floating-point rounding    *)
(* is outside the model.  Texts are modelled by their length, the only     *)
(* thing the code reads from them.                                         *)
(***************************************************************************)
EXTENDS Integers, Sequences, FiniteSets, TLC

VARIABLES
    pc,                  \* position of the analyze_skin_condition / analyze_discharge coroutine
    analysis_type,       \* "skin" | "discharge"
    image,               \* the PIL image handed to the service
    enhanced,            \* result of preprocess_for_analysis (enhanced_image, enhanced_array)
    quality_assessment,  \* result of assess_quality
    gpt4_result,         \* result of get_gpt4_vision_analysis
    resnet_result,       \* result of get_resnet_prediction
    ensemble_confidence, \* result of calculate_ensemble_confidence
    result,              \* the dict analyze_* returns
    gpt4_calls,          \* number of client.chat.completions.create calls issued
    resnet_calls,        \* number of resnet_model forward passes issued
    model_files,         \* which checkpoint files exist under models/
    models_initialized,  \* NailHemoglobinService._models_initialized
    loaded,              \* which of nail_detector / hemoglobin_predictor are not None
    hb_pc,               \* position of the analyze_hemoglobin coroutine
    raw_detections,      \* what the Faster R-CNN emits for the image (boxes, scores, labels)
    nail_results,        \* result of NailDetector.detect_nails
    hemoglobin_predictions, \* the list analyze_hemoglobin builds, one dict per nail
    predict_calls,       \* number of predict_hemoglobin calls issued
    analysis_result,     \* the dict analyze_hemoglobin returns
    health_assessment,   \* result of LLMHealthService.analyze_hemoglobin_with_context
    endpoint_pc,         \* position of the analyze_nail_hemoglobin endpoint
    response,            \* the HTTP response of the endpoint
    pattern_pc,          \* position inside PatternDetectionService.detect_patterns_improved
    pattern_image,       \* image.shape of the array handed to detect_patterns_improved
    contours,            \* what cv2.findContours returns: contour area and bounding rectangle
    candidate_bboxes,    \* the list detect_patterns_improved builds from the contours
    merged_bboxes,       \* the list detect_patterns_improved returns
    pattern_result,      \* the dict analyze_patterns returns
    upload,              \* the multipart request of POST /analyze-image
    api_pc,              \* position of the analyze_health_image handler
    decoded_sizes,       \* byte lengths of the payloads handed to Image.open
    final_response,      \* the HTTP response of analyze_health_image
    requests,            \* the requests that reach a lazily initialised service
    load_count,          \* how many times each set of weights was read from disk
    instance,            \* the object each lazily initialised attribute holds (0 = None)
    training,            \* resnet_model.training: TRUE as constructed, FALSE after eval()
    first_run            \* what an earlier run of the analysis on the same image returned

visionVars == <<pc, analysis_type, image, enhanced, quality_assessment, gpt4_result,
                resnet_result, ensemble_confidence, result, gpt4_calls, resnet_calls>>

hbVars == <<model_files, models_initialized, loaded, hb_pc, raw_detections, nail_results,
            hemoglobin_predictions, predict_calls, analysis_result, health_assessment,
            endpoint_pc, response>>

patternVars == <<pattern_pc, pattern_image, contours, candidate_bboxes, merged_bboxes,
                 pattern_result>>

apiVars == <<upload, api_pc, decoded_sizes, final_response>>

initVars == <<requests, load_count, instance>>

historyVars == <<training, first_run>>

vars == <<pc, analysis_type, image, enhanced, quality_assessment, gpt4_result,
          resnet_result, ensemble_confidence, result, gpt4_calls, resnet_calls,
          model_files, models_initialized, loaded, hb_pc, raw_detections, nail_results,
          hemoglobin_predictions, predict_calls, analysis_result, health_assessment,
          endpoint_pc, response,
          pattern_pc, pattern_image, contours, candidate_bboxes, merged_bboxes,
          pattern_result,
          upload, api_pc, decoded_sizes, final_response,
          requests, load_count, instance,
          training, first_run>>

----------------------------------------------------------------------------
(* Bounds of the model *)

ProbSteps == 10
NumClasses == 4
MaxTextLen == 150
MaxBlur == 120
MaxRawDetections == 3

----------------------------------------------------------------------------
(* Fixed-point unit and helpers *)

ONE == 600 * ProbSteps

Min(a, b) == IF a <= b THEN a ELSE b

RECURSIVE SumSeq(_)
SumSeq(s) == IF s = <<>> THEN 0 ELSE Head(s) + SumSeq(Tail(s))

\* np.mean over a non-empty list
np_mean(s) == SumSeq(s) \div Len(s)

----------------------------------------------------------------------------
(* settings: backend/app/core/config.py *)

MIN_IMAGE_SIZE == <<100, 100>>
MAX_IMAGE_DIMENSION == 2048
BLUR_THRESHOLD == 100
QUALITY_THRESHOLD == (7 * ONE) \div 10

SKIN_CONDITIONS == <<"normal_skin", "acne", "eczema", "psoriasis",
                     "melanoma", "basal_cell_carcinoma", "seborrheic_keratosis">>
DISCHARGE_CONDITIONS == <<"normal_white", "normal_clear", "yeast_infection",
                          "bacterial_vaginosis", "trichomoniasis", "menstrual_blood">>

\* self.medical_classes, cut to the NumClasses logits the modelled network emits
medical_classes == SubSeq(SKIN_CONDITIONS \o DISCHARGE_CONDITIONS, 1, NumClasses)

----------------------------------------------------------------------------
(* Values that stand for Python's None / absent results *)

NoValue == [none |-> TRUE]

NoPrediction == [class |-> "None", confidence |-> 0, rank |-> 0]

----------------------------------------------------------------------------
(* Inputs: images, answers of the OpenAI client, outputs of the network *)

Modes == {"RGB", "RGBA", "L"}

Dims == {40, 100, 133, 134, 300, 512}

\* An image is its mode, its size and lap_var, the variance of the Laplacian
\* of its (enhanced) pixels; a single-colour image has a Laplacian of 0
\* everywhere, hence variance 0.
Images ==
    {im \in [mode : Modes, width : Dims, height : Dims,
             uniform : BOOLEAN, lap_var : 0..MaxBlur] :
        im.uniform => im.lap_var = 0}

\* The images the whole-pipeline specification draws its request from.
RequestImages ==
    {im \in Images : /\ im.width = im.height
                     /\ im.width \in {40, 300}
                     /\ im.lap_var \in {0, MaxBlur}}

TextLens == {0, 100, 101, MaxTextLen}

\* What client.chat.completions.create does: answer with a text or raise.
LlmOutcomes ==
    [kind : {"text"}, len : TextLens, error : {"None"}]
    \cup [kind : {"raise"}, len : {0}, error : {"timeout", "auth error", "malformed response"}]

\* softmax output: NumClasses probabilities on a grid of 1/ProbSteps, summing to 1
ProbVectors ==
    {[i \in 1..NumClasses |-> f[i] * (ONE \div ProbSteps)] :
        f \in {g \in [1..NumClasses -> 0..ProbSteps] :
                  SumSeq([i \in 1..NumClasses |-> g[i]]) = ProbSteps}}

\* What the forward pass does: produce probabilities or raise.
ModelOutcomes ==
    [kind : {"probs"}, probabilities : ProbVectors]
    \cup [kind : {"raise"}, probabilities : {<<>>}]

----------------------------------------------------------------------------
(* ImagePreprocessor.preprocess_for_analysis *)

Channels(mode) == CASE mode = "RGB" -> 3 [] mode = "RGBA" -> 4 [] OTHER -> 1

\* np.array(pil_image) with the alpha channel cut; cv2.cvtColor(RGB2LAB) in
\* enhance_image raises on an array that is not 3-channel.
preprocess_for_analysis(pil_image) ==
    LET channels == IF Channels(pil_image.mode) = 4 THEN 3 ELSE Channels(pil_image.mode)
    IN  IF channels = 3
        THEN [raised |-> FALSE, channels |-> 3,
              width |-> pil_image.width, height |-> pil_image.height,
              lap_var |-> pil_image.lap_var]
        ELSE [raised |-> TRUE, channels |-> channels,
              width |-> pil_image.width, height |-> pil_image.height,
              lap_var |-> pil_image.lap_var]

----------------------------------------------------------------------------
(* ImageQualityValidator *)

calculate_blur_score(image_array) == image_array.lap_var

validate_resolution(pil_image) ==
    [width |-> pil_image.width,
     height |-> pil_image.height,
     meets_min_size |-> pil_image.width >= MIN_IMAGE_SIZE[1]
                        /\ pil_image.height >= MIN_IMAGE_SIZE[2],
     within_max_dimension |-> pil_image.width <= MAX_IMAGE_DIMENSION
                              /\ pil_image.height <= MAX_IMAGE_DIMENSION,
     \* 0.75 <= width / height <= 1.33
     is_square_like |-> 75 * pil_image.height <= 100 * pil_image.width
                        /\ 100 * pil_image.width <= 133 * pil_image.height]

\* Faulty variant: the ratio is inverted, so a blurrier image scores higher
Sharpness_inverted(blur_score) ==
    IF blur_score = 0 THEN ONE ELSE Min((BLUR_THRESHOLD * ONE) \div blur_score, ONE)

Sharpness(blur_score) == Min((blur_score * ONE) \div BLUR_THRESHOLD, ONE)

\* Faulty variant: the quality threshold is exclusive
IsSuitable_strict(overall_quality) == overall_quality > QUALITY_THRESHOLD

IsSuitable(overall_quality) == overall_quality >= QUALITY_THRESHOLD

assess_quality(pil_image, image_array) ==
    LET blur_score == calculate_blur_score(image_array)
        resolution_info == validate_resolution(pil_image)
        quality_factors ==
            [sharpness |-> Sharpness(blur_score),
             resolution |-> IF resolution_info.meets_min_size THEN ONE ELSE ONE \div 2,
             aspect_ratio |-> IF resolution_info.is_square_like THEN ONE ELSE (8 * ONE) \div 10]
        overall_quality == np_mean(<<quality_factors.sharpness,
                                     quality_factors.resolution,
                                     quality_factors.aspect_ratio>>)
    IN  [blur_score |-> blur_score,
         is_sharp |-> blur_score > BLUR_THRESHOLD,
         resolution_info |-> resolution_info,
         quality_factors |-> quality_factors,
         overall_quality |-> overall_quality,
         suitable_for_analysis |-> IsSuitable(overall_quality)]

----------------------------------------------------------------------------
(* VisionAnalysisService.get_gpt4_vision_analysis *)

OPENAI_MODEL == "gpt-4-vision-preview"

\* len("GPT-4 Vision analysis unavailable")
UnavailableTextLen == 33

\* Faulty variant: no try/except around the API call, the exception propagates
get_gpt4_vision_analysis_uncaught(outcome) ==
    IF outcome.kind = "text"
    THEN [gpt4_analysis |-> outcome.len, model_used |-> OPENAI_MODEL,
          error |-> "None", success |-> TRUE, raised |-> FALSE]
    ELSE [gpt4_analysis |-> 0, model_used |-> "None",
          error |-> outcome.error, success |-> FALSE, raised |-> TRUE]

\* The whole body is inside try/except Exception: an answer becomes a
\* success, anything raised becomes a failure that carries str(e).
get_gpt4_vision_analysis(outcome) ==
    IF outcome.kind = "text"
    THEN [gpt4_analysis |-> outcome.len, model_used |-> OPENAI_MODEL,
          error |-> "None", success |-> TRUE, raised |-> FALSE]
    ELSE [gpt4_analysis |-> UnavailableTextLen, model_used |-> "None",
          error |-> outcome.error, success |-> FALSE, raised |-> FALSE]

----------------------------------------------------------------------------
(* VisionAnalysisService.get_resnet_prediction *)

TopK == 3

\* The indices not yet taken that hold the largest remaining probability.
ArgMaxSet(probabilities, taken) ==
    {i \in (1..Len(probabilities)) \ taken :
        \A j \in (1..Len(probabilities)) \ taken : probabilities[i] >= probabilities[j]}

\* torch.topk(probabilities, 3).indices: the k largest entries in descending
\* order of value.  torch does not define the order among equal values (it
\* depends on the device and on the selection algorithm), so every order of
\* equal entries is an outcome.
RECURSIVE torch_topk(_, _, _)
torch_topk(probabilities, k, taken) ==
    IF k = 0 THEN {<<>>}
    ELSE UNION {{<<i>> \o rest : rest \in torch_topk(probabilities, k - 1, taken \cup {i})} :
                   i \in ArgMaxSet(probabilities, taken)}

\* what torch.topk can answer for the outcome of a forward pass
TopkOutcomes(outcome) ==
    IF outcome.kind = "raise" \/ Len(outcome.probabilities) < TopK
    THEN {<<>>}
    ELSE torch_topk(outcome.probabilities, TopK, {})

\* The whole body is inside try/except Exception.  torch.topk raises when
\* there are fewer than 3 probabilities.
get_resnet_prediction(outcome, top_indices) ==
    IF outcome.kind = "raise" \/ Len(outcome.probabilities) < TopK
    THEN [predictions |-> <<>>, top_prediction |-> NoPrediction,
          all_probabilities |-> <<>>, error |-> "ResNet prediction failed",
          success |-> FALSE, raised |-> FALSE]
    ELSE LET predictions ==
                 [i \in 1..Len(top_indices) |->
                     [class |-> medical_classes[top_indices[i]],
                      confidence |-> outcome.probabilities[top_indices[i]],
                      rank |-> i]]
         IN  [predictions |-> predictions,
              top_prediction |-> IF predictions # <<>> THEN predictions[1] ELSE NoPrediction,
              all_probabilities |-> outcome.probabilities,
              error |-> "None", success |-> TRUE, raised |-> FALSE]

----------------------------------------------------------------------------
(* VisionAnalysisService.calculate_ensemble_confidence *)

GPT4_BASE_CONFIDENCE == (8 * ONE) \div 10
GPT4_DETAILED_CONFIDENCE == (9 * ONE) \div 10
LOW_CONFIDENCE == (3 * ONE) \div 10
DetailedTextLen == 100

\* Faulty variant: a text of exactly 100 characters already counts as detailed
gpt4_confidence_inclusive(gpt4_res) ==
    IF gpt4_res.gpt4_analysis >= DetailedTextLen
    THEN GPT4_DETAILED_CONFIDENCE
    ELSE GPT4_BASE_CONFIDENCE

gpt4_confidence(gpt4_res) ==
    IF gpt4_res.gpt4_analysis > DetailedTextLen
    THEN GPT4_DETAILED_CONFIDENCE
    ELSE GPT4_BASE_CONFIDENCE

\* Faulty variant: the GPT-4 contribution is collected without looking at success
confidence_factors_ignoring_failure(gpt4_res, resnet_res) ==
    <<gpt4_confidence(gpt4_res)>>
    \o (IF resnet_res.success /\ resnet_res.top_prediction # NoPrediction
        THEN <<resnet_res.top_prediction.confidence>>
        ELSE <<>>)

confidence_factors(gpt4_res, resnet_res) ==
    (IF gpt4_res.success THEN <<gpt4_confidence(gpt4_res)>> ELSE <<>>)
    \o (IF resnet_res.success /\ resnet_res.top_prediction # NoPrediction
        THEN <<resnet_res.top_prediction.confidence>>
        ELSE <<>>)

calculate_ensemble_confidence(gpt4_res, resnet_res) ==
    LET factors == confidence_factors(gpt4_res, resnet_res)
    IN  IF factors # <<>> THEN np_mean(factors) ELSE LOW_CONFIDENCE

----------------------------------------------------------------------------
(* Recommendations and the other derived fields of the result *)

QualityNotice ==
    "Image quality may affect analysis accuracy - consider retaking with better lighting"

EducationalNotice ==
    "This analysis is for educational purposes only and not a substitute for professional medical advice"

\* "needle" in class_name, over the labels of settings
Contains(class_name, needle) ==
    CASE needle = "melanoma" -> class_name = "melanoma"
      [] needle = "carcinoma" -> class_name = "basal_cell_carcinoma"
      [] needle = "acne" -> class_name = "acne"
      [] needle = "eczema" -> class_name = "eczema"
      [] needle = "normal" -> class_name \in {"normal_skin", "normal_white", "normal_clear"}
      [] needle = "yeast" -> class_name = "yeast_infection"
      [] needle = "bacterial" -> class_name = "bacterial_vaginosis"
      [] needle = "trichomoniasis" -> class_name = "trichomoniasis"
      [] OTHER -> FALSE

_get_skin_recommendations(resnet_res, quality) ==
    (IF ~quality.suitable_for_analysis THEN <<QualityNotice>> ELSE <<>>)
    \o (IF resnet_res.success /\ resnet_res.predictions # <<>>
        THEN LET top_pred == resnet_res.predictions[1]
             IN  IF top_pred.confidence > (8 * ONE) \div 10
                 THEN IF Contains(top_pred.class, "melanoma") \/ Contains(top_pred.class, "carcinoma")
                      THEN <<"Potentially concerning features detected - seek immediate dermatological evaluation">>
                      ELSE IF Contains(top_pred.class, "acne")
                      THEN <<"Consider gentle skincare routine and avoid harsh products">>
                      ELSE IF Contains(top_pred.class, "eczema")
                      THEN <<"Keep skin moisturized and identify potential triggers">>
                      ELSE <<>>
                 ELSE <<"Analysis confidence is moderate - consult healthcare provider for accurate diagnosis">>
        ELSE <<"Unable to provide specific recommendations - consult a dermatologist for proper evaluation">>)
    \o <<EducationalNotice>>

_get_discharge_recommendations(resnet_res, quality) ==
    (IF ~quality.suitable_for_analysis THEN <<QualityNotice>> ELSE <<>>)
    \o (IF resnet_res.success /\ resnet_res.predictions # <<>>
        THEN LET top_pred == resnet_res.predictions[1]
             IN  IF top_pred.confidence > (7 * ONE) \div 10
                 THEN IF Contains(top_pred.class, "normal")
                      THEN <<"Discharge appears within normal variation">>
                      ELSE IF Contains(top_pred.class, "yeast")
                      THEN <<"Possible yeast infection - consider consulting healthcare provider">>
                      ELSE IF Contains(top_pred.class, "bacterial")
                      THEN <<"Possible bacterial infection - recommend medical evaluation">>
                      ELSE IF Contains(top_pred.class, "trichomoniasis")
                      THEN <<"Possible STI detected - seek immediate medical attention">>
                      ELSE <<>>
                 ELSE <<"Analysis confidence is moderate - monitor symptoms and consult healthcare provider">>
        ELSE <<"Unable to provide specific recommendations - consult healthcare provider for proper evaluation">>)
    \o <<"Track symptoms, odor, and associated discomfort", EducationalNotice>>

RECURSIVE skin_concerns(_)
skin_concerns(predictions) ==
    IF predictions = <<>> THEN <<>>
    ELSE (IF Head(predictions).confidence > (3 * ONE) \div 10
          THEN <<[condition |-> Head(predictions).class,
                  confidence |-> Head(predictions).confidence]>>
          ELSE <<>>)
         \o skin_concerns(Tail(predictions))

\* The dict analyze_skin_condition / analyze_discharge return on the normal path.
\* The colour statistics and health indicators of analyze_discharge are
\* functions of the pixels, which the image records do not carry; they cannot
\* raise on a 3-channel array and are left out of the dict.
SuccessResult(type, gpt4_res, resnet_res, quality, confidence) ==
    [analysis_type |-> IF type = "skin" THEN "skin_condition" ELSE "discharge",
     gpt4_vision |-> gpt4_res,
     resnet_classification |-> resnet_res,
     skin_concerns |-> IF type = "skin" THEN skin_concerns(resnet_res.predictions) ELSE <<>>,
     quality_assessment |-> quality,
     ensemble_confidence |-> confidence,
     recommendations |-> IF type = "skin"
                         THEN _get_skin_recommendations(resnet_res, quality)
                         ELSE _get_discharge_recommendations(resnet_res, quality),
     error |-> "None",
     success |-> TRUE]

\* The dict of the except branch
FailureResult(type, message) ==
    [analysis_type |-> IF type = "skin" THEN "skin_condition" ELSE "discharge",
     gpt4_vision |-> NoValue,
     resnet_classification |-> NoValue,
     skin_concerns |-> <<>>,
     quality_assessment |-> NoValue,
     ensemble_confidence |-> 0,
     recommendations |-> <<>>,
     error |-> message,
     success |-> FALSE]

----------------------------------------------------------------------------
(* analyze_skin_condition / analyze_discharge, one action per statement    *)
(* of the coroutine.  The body is one try block: whatever a step raises    *)
(* ends the request with the failure dict of the except branch.            *)

\* enhanced_image, enhanced_array = self.preprocessor.preprocess_for_analysis(image)
Preprocess ==
    /\ pc = "received"
    /\ LET e == preprocess_for_analysis(image)
       IN  /\ enhanced' = e
           /\ IF e.raised
              THEN /\ pc' = "returned"
                   /\ result' = FailureResult(analysis_type, "preprocessing failed")
              ELSE /\ pc' = "preprocessed"
                   /\ UNCHANGED result
    /\ UNCHANGED <<analysis_type, image, quality_assessment, gpt4_result, resnet_result,
                   ensemble_confidence, gpt4_calls, resnet_calls>>

\* quality_assessment = self.quality_validator.assess_quality(image, enhanced_array)
AssessQuality ==
    /\ pc = "preprocessed"
    /\ quality_assessment' = assess_quality(image, enhanced)
    /\ pc' = "assessed"
    /\ UNCHANGED <<analysis_type, image, enhanced, gpt4_result, resnet_result,
                   ensemble_confidence, result, gpt4_calls, resnet_calls>>

\* a caller that issues the call again after a failed one
GetGpt4VisionAnalysis_retrying ==
    /\ pc = "assessed"
    /\ \E outcome \in LlmOutcomes :
         LET r == get_gpt4_vision_analysis(outcome)
         IN  /\ gpt4_result' = r
             /\ pc' = IF r.success \/ gpt4_calls >= 1 THEN "gpt4_done" ELSE "assessed"
    /\ gpt4_calls' = gpt4_calls + 1
    /\ UNCHANGED <<analysis_type, image, enhanced, quality_assessment, resnet_result,
                   ensemble_confidence, result, resnet_calls>>

\* gpt4_result = self.get_gpt4_vision_analysis(enhanced_image, analysis_type)
GetGpt4VisionAnalysis ==
    /\ pc = "assessed"
    /\ \E outcome \in LlmOutcomes :
         LET r == get_gpt4_vision_analysis(outcome)
         IN  /\ gpt4_result' = r
             /\ IF r.raised
                THEN /\ pc' = "returned"
                     /\ result' = FailureResult(analysis_type, outcome.error)
                ELSE /\ pc' = "gpt4_done"
                     /\ UNCHANGED result
    /\ gpt4_calls' = gpt4_calls + 1
    /\ UNCHANGED <<analysis_type, image, enhanced, quality_assessment, resnet_result,
                   ensemble_confidence, resnet_calls>>

\* resnet_result = self.get_resnet_prediction(enhanced_image)
GetResnetPrediction ==
    /\ pc = "gpt4_done"
    /\ \E outcome \in ModelOutcomes :
         \E top_indices \in TopkOutcomes(outcome) :
         LET r == get_resnet_prediction(outcome, top_indices)
         IN  /\ resnet_result' = r
             /\ IF r.raised
                THEN /\ pc' = "returned"
                     /\ result' = FailureResult(analysis_type, "ResNet prediction failed")
                ELSE /\ pc' = "resnet_done"
                     /\ UNCHANGED result
    /\ resnet_calls' = resnet_calls + 1
    /\ UNCHANGED <<analysis_type, image, enhanced, quality_assessment, gpt4_result,
                   ensemble_confidence, gpt4_calls>>

\* ensemble_confidence = self.calculate_ensemble_confidence(gpt4_result, resnet_result)
CalculateEnsembleConfidence ==
    /\ pc = "resnet_done"
    /\ ensemble_confidence' = calculate_ensemble_confidence(gpt4_result, resnet_result)
    /\ pc' = "scored"
    /\ UNCHANGED <<analysis_type, image, enhanced, quality_assessment, gpt4_result,
                   resnet_result, result, gpt4_calls, resnet_calls>>

\* the derived fields and the return statement
Assemble ==
    /\ pc = "scored"
    /\ result' = SuccessResult(analysis_type, gpt4_result, resnet_result,
                               quality_assessment, ensemble_confidence)
    /\ pc' = "returned"
    /\ UNCHANGED <<analysis_type, image, enhanced, quality_assessment, gpt4_result,
                   resnet_result, ensemble_confidence, gpt4_calls, resnet_calls>>

----------------------------------------------------------------------------
(* Hemoglobin pipeline: backend/app/services/nail_hemoglobin_service.py *)

RECURSIVE Factorial(_)
Factorial(n) == IF n <= 1 THEN 1 ELSE n * Factorial(n - 1)

\* Unit of hemoglobin values: 1 g/L = HbScale, so that the mean over up to
\* MaxRawDetections nails is exact.
HbScale == Factorial(MaxRawDetections)

\* Values the regressor can answer with for one nail crop (g/L)
HbLevels == {v * HbScale : v \in {118, 122, 125, 132, 139, 140}}

\* Unit of box coordinates: the detector answers with float32 coordinates,
\* modelled in tenths of a pixel.
PixelUnit == 10

\* size of the photo the detections are made on
NailImage == [width |-> 90, height |-> 60]

\* (x1, y1, x2, y2); the detector clips its boxes to the image and drops
\* boxes narrower than a hundredth of a pixel
BoxA == <<10 * PixelUnit, 10 * PixelUnit, 40 * PixelUnit, 50 * PixelUnit>>
BoxB == <<50 * PixelUnit + 5, 20 * PixelUnit + 5, 90 * PixelUnit, 60 * PixelUnit>>
BoxThin == <<10 * PixelUnit + 2, 10 * PixelUnit, 10 * PixelUnit + 9, 50 * PixelUnit>>

\* Raw detections of the Faster R-CNN: one above the threshold, one exactly on
\* it, one below it, one with the background label, and one above the
\* threshold that is less than a pixel wide.
RawCandidates ==
    {[box |-> BoxA, score |-> (9 * ONE) \div 10, label |-> 1],
     [box |-> BoxB, score |-> ONE \div 2, label |-> 1],
     [box |-> BoxThin, score |-> (9 * ONE) \div 10, label |-> 1],
     [box |-> BoxA, score |-> (4 * ONE) \div 10, label |-> 1],
     [box |-> BoxB, score |-> (9 * ONE) \div 10, label |-> 0]}

RawDetectionLists ==
    UNION {[1..n -> RawCandidates] : n \in 0..MaxRawDetections}

CONFIDENCE_THRESHOLD == ONE \div 2

RECURSIVE SelectSeq2(_, _)
\* boxes[nail_mask]: the elements that pass the mask, in their original order
SelectSeq2(s, threshold) ==
    IF s = <<>> THEN <<>>
    ELSE (IF Head(s).score >= threshold /\ Head(s).label = 1 THEN <<Head(s)>> ELSE <<>>)
         \o SelectSeq2(Tail(s), threshold)

\* a filter that drops a detection whose score equals the threshold
detect_nails_strict(raw, confidence_threshold) ==
    LET kept == SelectSeq2(raw, confidence_threshold + 1)
    IN  [boxes |-> [i \in 1..Len(kept) |-> kept[i].box],
         scores |-> [i \in 1..Len(kept) |-> kept[i].score],
         num_nails |-> Len(kept)]

\* NailDetector.detect_nails
detect_nails(raw, confidence_threshold) ==
    LET kept == SelectSeq2(raw, confidence_threshold)
    IN  [boxes |-> [i \in 1..Len(kept) |-> kept[i].box],
         scores |-> [i \in 1..Len(kept) |-> kept[i].score],
         num_nails |-> Len(kept)]

NoNailsMessage == "No nails detected in the image. Please ensure nails are clearly visible."

\* the dict returned when num_nails == 0
NoNailsResult ==
    [success |-> FALSE,
     message |-> NoNailsMessage,
     reason |-> "None",
     nail_analysis |-> [num_nails_detected |-> 0,
                        individual_predictions |-> <<>>,
                        average_hemoglobin_g_per_L |-> 0],
     anemia_risk |-> "None",
     severity |-> "None"]

\* the dict of the except branch
AnalysisFailedResult(reason) ==
    [success |-> FALSE,
     message |-> "Analysis failed",
     reason |-> reason,
     nail_analysis |-> [num_nails_detected |-> 0,
                        individual_predictions |-> <<>>,
                        average_hemoglobin_g_per_L |-> 0],
     anemia_risk |-> "None",
     severity |-> "None"]

\* Faulty variant: the high-risk cutoff is inclusive
_assess_anemia_risk_inclusive(hemoglobin_level) ==
    IF hemoglobin_level <= 120 * HbScale THEN "high"
    ELSE IF hemoglobin_level < 140 * HbScale THEN "moderate"
    ELSE "low"

_assess_anemia_risk(hemoglobin_level) ==
    IF hemoglobin_level < 120 * HbScale THEN "high"
    ELSE IF hemoglobin_level < 140 * HbScale THEN "moderate"
    ELSE "low"

_assess_severity(hemoglobin_level) ==
    IF hemoglobin_level < 120 * HbScale THEN "high"
    ELSE IF hemoglobin_level < 140 * HbScale THEN "moderate"
    ELSE "low"

\* x1, y1, x2, y2 = [int(coord) for coord in box]
crop_box(box) == [k \in 1..4 |-> box[k] \div PixelUnit]

\* image.crop((x1, y1, x2, y2)).size
crop_size(box) ==
    <<crop_box(box)[3] - crop_box(box)[1], crop_box(box)[4] - crop_box(box)[2]>>

\* What predict_hemoglobin does with a crop: a value for a crop that holds
\* pixels.  A crop without pixels is handed to transforms.Resize all the
\* same; Pillow either rejects the empty image or resamples it to a blank
\* 224x224 input, depending on its version, so both outcomes are kept.
PredictOutcomes(box) ==
    [kind : {"value"}, hb_level : HbLevels]
    \cup (IF crop_size(box)[1] <= 0 \/ crop_size(box)[2] <= 0
          THEN [kind : {"raise"}, hb_level : {0}]
          ELSE {})

\* one iteration of the loop over zip(boxes, scores): crop and predict
NailPrediction(i, box, score, hb_level) ==
    [nail_id |-> i,
     bounding_box |-> box,
     confidence |-> score,
     hemoglobin_g_per_L |-> hb_level,
     nail_size |-> crop_size(box)]

\* Faulty variant: the first nail's value instead of the mean
avg_hemoglobin_first(predictions) ==
    predictions[1].hemoglobin_g_per_L

\* np.mean([pred['hemoglobin_g_per_L'] for pred in hemoglobin_predictions])
avg_hemoglobin(predictions) ==
    np_mean([i \in 1..Len(predictions) |-> predictions[i].hemoglobin_g_per_L])

\* the dict returned on the normal path
AnalysisResult(nails, predictions) ==
    LET avg == avg_hemoglobin(predictions)
    IN  [success |-> TRUE,
         message |-> "None",
         reason |-> "None",
         nail_analysis |-> [num_nails_detected |-> nails.num_nails,
                            individual_predictions |-> predictions,
                            average_hemoglobin_g_per_L |-> avg],
         anemia_risk |-> _assess_anemia_risk(avg),
         severity |-> _assess_severity(avg)]

\* self._initialize_models() when the flag is not set
HbInitializeModels ==
    /\ hb_pc = "called"
    /\ IF models_initialized
       THEN /\ hb_pc' = "initialized"
            /\ UNCHANGED <<models_initialized, loaded, analysis_result>>
       ELSE IF ~model_files.nail \/ ~model_files.hemoglobin
       THEN \* FileNotFoundError, re-raised into the except branch of analyze_hemoglobin
            /\ hb_pc' = "returned"
            /\ analysis_result' = AnalysisFailedResult("model not found")
            /\ UNCHANGED <<models_initialized, loaded>>
       ELSE \E load \in {"ok", "nail detector raises", "hemoglobin predictor raises"} :
              CASE load = "ok" ->
                     /\ loaded' = {"nail_detector", "hemoglobin_predictor"}
                     /\ models_initialized' = TRUE
                     /\ hb_pc' = "initialized"
                     /\ UNCHANGED analysis_result
                [] load = "nail detector raises" ->
                     /\ hb_pc' = "returned"
                     /\ analysis_result' = AnalysisFailedResult(load)
                     /\ UNCHANGED <<models_initialized, loaded>>
                [] load = "hemoglobin predictor raises" ->
                     /\ loaded' = loaded \cup {"nail_detector"}
                     /\ hb_pc' = "returned"
                     /\ analysis_result' = AnalysisFailedResult(load)
                     /\ UNCHANGED models_initialized
    /\ UNCHANGED <<model_files, raw_detections, nail_results, hemoglobin_predictions,
                   predict_calls, health_assessment, endpoint_pc, response>>

\* Step 1: detect nails, and the early return when there are none
HbDetectNails ==
    /\ hb_pc = "initialized"
    /\ LET nails == detect_nails(raw_detections, CONFIDENCE_THRESHOLD)
       IN  /\ nail_results' = nails
           /\ IF nails.num_nails = 0
              THEN /\ hb_pc' = "returned"
                   /\ analysis_result' = NoNailsResult
              ELSE /\ hb_pc' = "predicting"
                   /\ UNCHANGED analysis_result
    /\ UNCHANGED <<model_files, models_initialized, loaded, raw_detections,
                   hemoglobin_predictions, predict_calls, health_assessment,
                   endpoint_pc, response>>

\* Step 2: one iteration of the loop, for the next (box, score) pair
HbPredictNail ==
    /\ hb_pc = "predicting"
    /\ Len(hemoglobin_predictions) < Min(Len(nail_results.boxes), Len(nail_results.scores))
    /\ LET i == Len(hemoglobin_predictions) + 1
       IN  \E outcome \in PredictOutcomes(nail_results.boxes[i]) :
             IF outcome.kind = "raise"
             THEN \* into the except branch of analyze_hemoglobin
                  /\ hb_pc' = "returned"
                  /\ analysis_result' = AnalysisFailedResult("predict_hemoglobin raised")
                  /\ UNCHANGED hemoglobin_predictions
             ELSE /\ hemoglobin_predictions' =
                        Append(hemoglobin_predictions,
                               NailPrediction(i, nail_results.boxes[i], nail_results.scores[i],
                                              outcome.hb_level))
                  /\ UNCHANGED <<hb_pc, analysis_result>>
    /\ predict_calls' = predict_calls + 1
    /\ UNCHANGED <<model_files, models_initialized, loaded, raw_detections,
                   nail_results, health_assessment, endpoint_pc, response>>

\* after the loop: average, risk, severity and the return statement
HbAggregate ==
    /\ hb_pc = "predicting"
    /\ Len(hemoglobin_predictions) = Min(Len(nail_results.boxes), Len(nail_results.scores))
    /\ analysis_result' = AnalysisResult(nail_results, hemoglobin_predictions)
    /\ hb_pc' = "returned"
    /\ UNCHANGED <<model_files, models_initialized, loaded, raw_detections, nail_results,
                   hemoglobin_predictions, predict_calls, health_assessment,
                   endpoint_pc, response>>

----------------------------------------------------------------------------
(* LLMHealthService.analyze_hemoglobin_with_context:                       *)
(* backend/app/services/llm_health_service.py                              *)

\* What _get_llm_response does: answer with a JSON object (whose severity is
\* whatever the LLM wrote), with JSON that is not an object, with plain
\* text, or raise.
HbLlmOutcomes ==
    [kind : {"json_object"}, severity : {"low", "moderate", "high"}]
    \cup [kind : {"json_other", "text", "raise"}, severity : {"None"}]

\* json.loads(response), and the fallback of the bare except
_parse_hemoglobin_response(llm_response, hemoglobin_level) ==
    IF llm_response.kind \in {"json_object", "json_other"}
    THEN [source |-> llm_response.kind, severity |-> llm_response.severity]
    ELSE [source |-> "fallback",
          severity |-> IF hemoglobin_level < 120 * HbScale THEN "high"
                       ELSE IF hemoglobin_level < 140 * HbScale THEN "moderate"
                       ELSE "low"]

analyze_hemoglobin_with_context(nail_analysis_result, llm_response) ==
    LET level == nail_analysis_result.nail_analysis.average_hemoglobin_g_per_L
        structured_response == _parse_hemoglobin_response(llm_response, level)
    IN  IF llm_response.kind = "raise" \/ structured_response.source = "json_other"
        THEN \* except Exception: the LLM call raised, or item assignment on a non-dict
             [source |-> "error", severity |-> "moderate", disclaimers |-> FALSE]
        ELSE [source |-> structured_response.source,
              severity |-> structured_response.severity,
              disclaimers |-> TRUE]

\* llm_service.analyze_hemoglobin_with_context(nail_analysis_result, ...) on a
\* successful analysis
AnalyzeHemoglobinWithContext ==
    /\ hb_pc = "returned"
    /\ analysis_result.success
    /\ \E llm_response \in HbLlmOutcomes :
         health_assessment' = analyze_hemoglobin_with_context(analysis_result, llm_response)
    /\ hb_pc' = "assessed"
    /\ UNCHANGED <<model_files, models_initialized, loaded, raw_detections, nail_results,
                   hemoglobin_predictions, predict_calls, analysis_result,
                   endpoint_pc, response>>

----------------------------------------------------------------------------
(* The endpoint analyze_nail_hemoglobin:                                   *)
(* backend/app/api/endpoints/health_analysis.py                            *)

\* The names bound at module level of the endpoint module (its imports,
\* assignments and definitions).
EndpointModuleGlobals ==
    {"APIRouter", "UploadFile", "File", "HTTPException", "Form", "JSONResponse",
     "List", "Optional", "io", "Image", "json", "logging", "settings", "logger",
     "router", "_vision_service", "_llm_service", "get_vision_service",
     "get_llm_service", "analyze_health_image", "health_check",
     "analyze_nail_hemoglobin", "hemoglobin_service_status"}

\* The first statement of the handler reads the global nail_hemoglobin_service.
\* A name the module never binds raises NameError; the statement is outside
\* the handler's try block, so the framework answers with its generic 500.
EndpointAnalyzeNailHemoglobin ==
    /\ endpoint_pc = "received"
    /\ "nail_hemoglobin_service" \notin EndpointModuleGlobals
    /\ response' = [status_code |-> 500, status |-> "Internal Server Error",
                    message |-> "None"]
    /\ endpoint_pc' = "responded"
    /\ UNCHANGED <<model_files, models_initialized, loaded, hb_pc, raw_detections,
                   nail_results, hemoglobin_predictions, predict_calls, analysis_result,
                   health_assessment>>

\* the hemoglobin pipeline at rest
HbIdle ==
    /\ model_files = [nail |-> TRUE, hemoglobin |-> TRUE]
    /\ models_initialized = FALSE
    /\ loaded = {}
    /\ hb_pc = "idle"
    /\ raw_detections = <<>>
    /\ nail_results = NoValue
    /\ hemoglobin_predictions = <<>>
    /\ predict_calls = 0
    /\ analysis_result = NoValue
    /\ health_assessment = NoValue
    /\ endpoint_pc = "idle"
    /\ response = NoValue

\* the pattern detector at rest
PatternIdle ==
    /\ pattern_pc = "idle"
    /\ pattern_image = NoValue
    /\ contours = <<>>
    /\ candidate_bboxes = <<>>
    /\ merged_bboxes = <<>>
    /\ pattern_result = NoValue

\* no request at the analyze-image endpoint
ApiIdle ==
    /\ upload = NoValue
    /\ api_pc = "idle"
    /\ decoded_sizes = {}
    /\ final_response = NoValue

\* no request at a lazily initialised service
LazyIdle ==
    /\ requests = <<>>
    /\ load_count = NoValue
    /\ instance = NoValue

\* a service whose classifier is as constructed, before any run
HistoryIdle ==
    /\ training = TRUE
    /\ first_run = NoValue

OthersIdle == PatternIdle /\ ApiIdle /\ LazyIdle /\ HistoryIdle

InitVisionState ==
    /\ pc = "received"
    /\ analysis_type \in {"skin", "discharge"}
    /\ enhanced = NoValue
    /\ quality_assessment = NoValue
    /\ gpt4_result = NoValue
    /\ resnet_result = NoValue
    /\ ensemble_confidence = 0
    /\ result = NoValue
    /\ gpt4_calls = 0
    /\ resnet_calls = 0

\* One analysis request on one of the request images
Init ==
    /\ InitVisionState
    /\ image \in RequestImages
    /\ HbIdle
    /\ OthersIdle

Next ==
    \/ (Preprocess /\ UNCHANGED <<hbVars, patternVars, apiVars, initVars, historyVars>>)
    \/ (AssessQuality /\ UNCHANGED <<hbVars, patternVars, apiVars, initVars, historyVars>>)
    \/ (GetGpt4VisionAnalysis /\ UNCHANGED <<hbVars, patternVars, apiVars, initVars, historyVars>>)
    \/ (GetResnetPrediction /\ UNCHANGED <<hbVars, patternVars, apiVars, initVars, historyVars>>)
    \/ (CalculateEnsembleConfidence /\ UNCHANGED <<hbVars, patternVars, apiVars, initVars, historyVars>>)
    \/ (Assemble /\ UNCHANGED <<hbVars, patternVars, apiVars, initVars, historyVars>>)

Spec == Init /\ [][Next]_vars

\* Quality assessment alone, over every image of the model
InitQuality ==
    /\ InitVisionState
    /\ image \in Images
    /\ HbIdle
    /\ OthersIdle

NextQuality ==
    \/ (Preprocess /\ UNCHANGED <<hbVars, patternVars, apiVars, initVars, historyVars>>)
    \/ (AssessQuality /\ UNCHANGED <<hbVars, patternVars, apiVars, initVars, historyVars>>)

SpecQuality == InitQuality /\ [][NextQuality]_vars

----------------------------------------------------------------------------
(* Specifications of the hemoglobin pipeline *)

\* the vision pipeline at rest
VisionIdle ==
    /\ pc = "idle"
    /\ analysis_type = "skin"
    /\ image = NoValue
    /\ enhanced = NoValue
    /\ quality_assessment = NoValue
    /\ gpt4_result = NoValue
    /\ resnet_result = NoValue
    /\ ensemble_confidence = 0
    /\ result = NoValue
    /\ gpt4_calls = 0
    /\ resnet_calls = 0

\* NailHemoglobinService.__init__, and one image with its raw detections
InitHbService ==
    /\ model_files \in [nail : BOOLEAN, hemoglobin : BOOLEAN]
    /\ models_initialized = FALSE
    /\ loaded = {}
    /\ raw_detections \in RawDetectionLists
    /\ nail_results = NoValue
    /\ hemoglobin_predictions = <<>>
    /\ predict_calls = 0
    /\ analysis_result = NoValue
    /\ health_assessment = NoValue
    /\ response = NoValue

\* analyze_hemoglobin called on the service
InitHemoglobin ==
    /\ VisionIdle
    /\ InitHbService
    /\ hb_pc = "called"
    /\ endpoint_pc = "idle"
    /\ OthersIdle

NextHemoglobin ==
    \/ (HbInitializeModels /\ UNCHANGED <<visionVars, patternVars, apiVars, initVars, historyVars>>)
    \/ (HbDetectNails /\ UNCHANGED <<visionVars, patternVars, apiVars, initVars, historyVars>>)
    \/ (HbPredictNail /\ UNCHANGED <<visionVars, patternVars, apiVars, initVars, historyVars>>)
    \/ (HbAggregate /\ UNCHANGED <<visionVars, patternVars, apiVars, initVars, historyVars>>)
    \/ (AnalyzeHemoglobinWithContext /\ UNCHANGED <<visionVars, patternVars, apiVars, initVars, historyVars>>)

SpecHemoglobin == InitHemoglobin /\ [][NextHemoglobin]_vars

\* NailHemoglobinService.check_models_available: the existence of the two
\* checkpoint files, and their conjunction
check_models_available(files) ==
    [nail_detection_model |-> [available |-> files.nail],
     hemoglobin_model |-> [available |-> files.hemoglobin],
     models_ready |-> files.nail /\ files.hemoglobin]

\* GET /hemoglobin-status.  The read of nail_hemoglobin_service is inside the
\* handler's try block, so the NameError of the unbound name is caught and
\* returned as a body with status "error" (HTTP 200).
HemoglobinServiceStatus ==
    /\ endpoint_pc = "status_received"
    /\ response' =
         IF "nail_hemoglobin_service" \in EndpointModuleGlobals
         THEN [status_code |-> 200,
               status |-> IF check_models_available(model_files).models_ready
                          THEN "ready" ELSE "not_ready",
               message |-> "None"]
         ELSE [status_code |-> 200, status |-> "error",
               message |-> "name 'nail_hemoglobin_service' is not defined"]
    /\ endpoint_pc' = "status_responded"
    /\ UNCHANGED <<model_files, models_initialized, loaded, hb_pc, raw_detections,
                   nail_results, hemoglobin_predictions, predict_calls, analysis_result,
                   health_assessment>>

\* a POST to /analyze-hemoglobin or a GET of /hemoglobin-status
InitEndpoint ==
    /\ VisionIdle
    /\ InitHbService
    /\ hb_pc = "idle"
    /\ endpoint_pc \in {"received", "status_received"}
    /\ OthersIdle

NextEndpoint ==
    \/ (EndpointAnalyzeNailHemoglobin
            /\ UNCHANGED <<visionVars, patternVars, apiVars, initVars, historyVars>>)
    \/ (HemoglobinServiceStatus
            /\ UNCHANGED <<visionVars, patternVars, apiVars, initVars, historyVars>>)

SpecEndpoint == InitEndpoint /\ [][NextEndpoint]_vars

----------------------------------------------------------------------------
(* PatternDetectionService.detect_patterns_improved and merge_nearby_boxes: *)
(* backend/app/services/pattern_detection_service.py                       *)
(* A bounding box is the tuple <<x, y, w, h>>.                             *)

MaxContours == 3

\* default arguments of detect_patterns_improved
MIN_AREA == 50
MAX_AREA == 5000
MERGE_DISTANCE == 30

\* image.shape of the arrays the model hands to the detector
PatternShapes == {[width |-> 120, height |-> 90], [width |-> 200, height |-> 160]}

\* What cv2.findContours and cv2.boundingRect can answer on an image of the
\* given shape: rectangles of at least one pixel inside the image, with a
\* contour area the rectangle can hold.  They sit in the corners, next to
\* each other, and around the two area limits.
ContourCandidates(shape) ==
    {[rect |-> <<0, 0, 10, 10>>, area |-> 60],
     [rect |-> <<shape.width - 12, shape.height - 12, 12, 12>>, area |-> 100],
     [rect |-> <<shape.width - 30, shape.height - 20, 14, 10>>, area |-> 80],
     [rect |-> <<40, 30, 20, 20>>, area |-> 300],
     [rect |-> <<50, 35, 20, 10>>, area |-> 150],
     [rect |-> <<62, 38, 12, 12>>, area |-> 110],
     [rect |-> <<78, 35, 10, 10>>, area |-> 70],
     [rect |-> <<70, 10, 9, 9>>, area |-> 49],
     [rect |-> <<70, 10, 9, 9>>, area |-> 50],
     [rect |-> <<30, 20, 2, 60>>, area |-> 55],
     [rect |-> <<10, 5, 101, 51>>, area |-> 5000],
     [rect |-> <<10, 5, 102, 51>>, area |-> 5001],
     [rect |-> <<0, 0, shape.width, shape.height>>, area |-> (shape.width - 1) * (shape.height - 1)]}

ContourLists(shape) ==
    UNION {[1..n -> ContourCandidates(shape)] : n \in 0..MaxContours}

Max(a, b) == IF a >= b THEN a ELSE b

\* Faulty variant: the padded box is not cut at the right and bottom edge
expand_bbox_unclamped(rect, shape) ==
    LET pad_w == (4 * rect[3]) \div 10
        pad_h == (4 * rect[4]) \div 10
        x == Max(0, rect[1] - pad_w)
        y == Max(0, rect[2] - pad_h)
    IN  <<x, y, rect[3] + 2 * pad_w, rect[4] + 2 * pad_h>>

\* the body of the loop over the contours: pad by int(w * 0.4), int(h * 0.4)
\* and clamp to the image
expand_bbox(rect, shape) ==
    LET pad_w == (4 * rect[3]) \div 10
        pad_h == (4 * rect[4]) \div 10
        x == Max(0, rect[1] - pad_w)
        y == Max(0, rect[2] - pad_h)
    IN  <<x, y,
          Min(shape.width - x, rect[3] + 2 * pad_w),
          Min(shape.height - y, rect[4] + 2 * pad_h)>>

RECURSIVE filter_and_expand(_, _)
\* the loop over the contours, in their order
filter_and_expand(cs, shape) ==
    IF cs = <<>> THEN <<>>
    ELSE (IF MIN_AREA <= Head(cs).area /\ Head(cs).area <= MAX_AREA
          THEN <<expand_bbox(Head(cs).rect, shape)>>
          ELSE <<>>)
         \o filter_and_expand(Tail(cs), shape)

\* cx, cy = x + w//2, y + h//2
Center(bbox) == <<bbox[1] + bbox[3] \div 2, bbox[2] + bbox[4] \div 2>>

\* np.sqrt((cx1 - cx2)**2 + (cy1 - cy2)**2) < distance_threshold
IsNearby(bbox1, bbox2, distance_threshold) ==
    LET c1 == Center(bbox1)
        c2 == Center(bbox2)
    IN  (c1[1] - c2[1]) * (c1[1] - c2[1]) + (c1[2] - c2[2]) * (c1[2] - c2[2])
            < distance_threshold * distance_threshold

SetMin(S) == CHOOSE m \in S : \A v \in S : m <= v
SetMax(S) == CHOOSE m \in S : \A v \in S : m >= v

\* Faulty variant: the box of the first member of the group
GroupBox_seed(bboxes, group) == bboxes[SetMin(group)]

\* the box that spans a group of boxes
GroupBox(bboxes, group) ==
    LET min_x == SetMin({bboxes[k][1] : k \in group})
        min_y == SetMin({bboxes[k][2] : k \in group})
        max_x == SetMax({bboxes[k][1] + bboxes[k][3] : k \in group})
        max_y == SetMax({bboxes[k][2] + bboxes[k][4] : k \in group})
    IN  <<min_x, min_y, max_x - min_x, max_y - min_y>>

RECURSIVE merge_from(_, _, _, _)
\* the outer loop of merge_nearby_boxes from position i on: an unused box
\* takes every unused box whose centre is nearer than the threshold to its
\* own centre
merge_from(bboxes, i, used, distance_threshold) ==
    IF i > Len(bboxes) THEN <<>>
    ELSE IF i \in used THEN merge_from(bboxes, i + 1, used, distance_threshold)
    ELSE LET group == {i} \cup {j \in (1..Len(bboxes)) \ used :
                                   j # i /\ IsNearby(bboxes[i], bboxes[j], distance_threshold)}
         IN  <<IF Cardinality(group) = 1 THEN bboxes[i] ELSE GroupBox(bboxes, group)>>
             \o merge_from(bboxes, i + 1, used \cup group, distance_threshold)

merge_nearby_boxes(bboxes, distance_threshold) ==
    IF Len(bboxes) <= 1 THEN bboxes
    ELSE merge_from(bboxes, 1, {}, distance_threshold)

\* detect_patterns_improved up to the end of the loop over the contours
DetectCandidates ==
    /\ pattern_pc = "called"
    /\ candidate_bboxes' = filter_and_expand(contours, pattern_image)
    /\ pattern_pc' = "candidates"
    /\ UNCHANGED <<pattern_image, contours, merged_bboxes, pattern_result>>

\* merged_bboxes = self.merge_nearby_boxes(candidate_bboxes, merge_distance)
\* and the return statement
MergeNearbyBoxes ==
    /\ pattern_pc = "candidates"
    /\ merged_bboxes' = merge_nearby_boxes(candidate_bboxes, MERGE_DISTANCE)
    /\ pattern_pc' = "returned"
    /\ UNCHANGED <<pattern_image, contours, candidate_bboxes, pattern_result>>

\* What the classifier does on one crop: raise, or answer with the index of
\* the largest probability and that probability.  Index 2 is one the class
\* mapping does not hold.
ClassifyOutcomes ==
    [kind : {"raise"}, class_idx : {0}, confidence : {0}]
    \cup [kind : {"max"}, class_idx : 0..2,
          confidence : {(4 * ONE) \div 10, (9 * ONE) \div 10}]

\* the default class mapping of load_model
class_names == [idx \in 0..1 |-> IF idx = 0 THEN "bipolar-circle" ELSE "radial-cross"]

\* extract_pattern_crop: the size of the crop, or None when nothing is left
extract_pattern_crop(shape, bbox) ==
    LET x == Max(0, bbox[1])
        y == Max(0, bbox[2])
        w == Min(bbox[3], shape.width - x)
        h == Min(bbox[4], shape.height - y)
    IN  IF w <= 0 \/ h <= 0 THEN NoValue ELSE [width |-> w, height |-> h]

\* classify_pattern
classify_pattern(crop_image, outcome, confidence_threshold) ==
    IF crop_image = NoValue THEN [class |-> "unknown", confidence |-> 0]
    ELSE IF outcome.kind = "raise" THEN [class |-> "error", confidence |-> 0]
    ELSE [class |-> IF outcome.confidence >= confidence_threshold
                    THEN (IF outcome.class_idx \in DOMAIN class_names
                          THEN class_names[outcome.class_idx]
                          ELSE "class_2")
                    ELSE "uncertain",
          confidence |-> outcome.confidence]

\* Faulty variant: a class name that is no key of pattern_counts is not counted
update_counts_known_only(pattern_counts, class_name) ==
    IF class_name \in DOMAIN pattern_counts
    THEN [pattern_counts EXCEPT ![class_name] = @ + 1]
    ELSE pattern_counts

\* the update of pattern_counts in the loop of analyze_patterns
update_counts(pattern_counts, class_name) ==
    IF class_name \in DOMAIN pattern_counts
    THEN [pattern_counts EXCEPT ![class_name] = @ + 1]
    ELSE [pattern_counts EXCEPT !["uncertain"] = @ + 1]

RECURSIVE count_patterns(_, _, _)
\* pattern_counts after the detections from position i on
count_patterns(detections, i, pattern_counts) ==
    IF i > Len(detections) THEN pattern_counts
    ELSE count_patterns(detections, i + 1,
                        update_counts(pattern_counts, detections[i].class))

\* analyze_patterns after detect_patterns_improved: the loop over the boxes
\* and the result dict
AnalyzePatterns ==
    /\ pattern_pc = "returned"
    /\ \E outcomes \in [1..Len(merged_bboxes) -> ClassifyOutcomes] :
         LET detections ==
                 [i \in 1..Len(merged_bboxes) |->
                     LET crop == extract_pattern_crop(pattern_image, merged_bboxes[i])
                         classified == classify_pattern(crop, outcomes[i], ONE \div 2)
                     IN  [bbox |-> merged_bboxes[i], class |-> classified.class,
                          confidence |-> classified.confidence]]
             pattern_counts ==
                 count_patterns(detections, 1,
                                [name \in {"bipolar-circle", "radial-cross",
                                           "uncertain", "error"} |-> 0])
         IN  pattern_result' =
                 [success |-> TRUE,
                  pattern_analysis |->
                      [total_patterns_detected |-> Len(merged_bboxes),
                       pattern_counts |-> pattern_counts,
                       circular_patterns |-> pattern_counts["bipolar-circle"],
                       cross_patterns |-> pattern_counts["radial-cross"],
                       uncertain_patterns |-> pattern_counts["uncertain"],
                       individual_detections |-> detections]]
    /\ pattern_pc' = "analyzed"
    /\ UNCHANGED <<pattern_image, contours, candidate_bboxes, merged_bboxes>>

\* detect_patterns_improved called on an image with its contours
InitPattern ==
    /\ VisionIdle
    /\ HistoryIdle
    /\ HbIdle
    /\ ApiIdle
    /\ LazyIdle
    /\ pattern_pc = "called"
    /\ pattern_image \in PatternShapes
    /\ contours \in ContourLists(pattern_image)
    /\ candidate_bboxes = <<>>
    /\ merged_bboxes = <<>>
    /\ pattern_result = NoValue

NextPattern ==
    \/ (DetectCandidates /\ UNCHANGED <<visionVars, hbVars, apiVars, initVars, historyVars>>)
    \/ (MergeNearbyBoxes /\ UNCHANGED <<visionVars, hbVars, apiVars, initVars, historyVars>>)

SpecPattern == InitPattern /\ [][NextPattern]_vars

\* analyze_patterns called on an image of 120 x 90 whose contours are near
\* two corners, chained in the middle, or too small
InitAnalyze ==
    /\ InitPattern
    /\ pattern_image = [width |-> 120, height |-> 90]
    /\ \A i \in 1..Len(contours) :
          contours[i].area \in {49, 60, 70, 100, 150, 300}

NextAnalyze ==
    \/ NextPattern
    \/ (AnalyzePatterns /\ UNCHANGED <<visionVars, hbVars, apiVars, initVars, historyVars>>)

SpecAnalyze == InitAnalyze /\ [][NextAnalyze]_vars

----------------------------------------------------------------------------
(* POST /analyze-image:                                                    *)
(* luna-health-app/backend/app/api/endpoints/health_analysis.py            *)

\* settings.MAX_UPLOAD_SIZE
MAX_UPLOAD_SIZE == 10 * 1024 * 1024

ALLOWED_TYPES == {"image/jpeg", "image/png", "image/webp", "image/jpg"}

\* the picture the bytes of an upload decode to
ApiPictures ==
    {[mode |-> m, width |-> d, height |-> d, uniform |-> FALSE, lap_var |-> MaxBlur] :
        m \in {"RGB", "RGBA", "L", "P"}, d \in {40, 300}}

\* the optional form field user_age
ApiAges ==
    {[given |-> FALSE, value |-> 0]}
    \cup [given : {TRUE}, value : {0 - 1, 0, 120, 121}]

\* A request: the form fields, the upload (its declared type, whether the
\* UploadFile object reports a size, the number of bytes, whether they decode
\* and to what), and what the module-level construction of the two services
\* gave.  entry tells which of the two analyze-image handlers receives it.
ApiRequestSpace ==
    [entry : {"luna-health-app", "backend"},
     analysis_type : {"skin", "discharge", "hair"},
     content_type : {"image/jpeg", "image/gif"},
     reports_size : BOOLEAN,
     length : {0, 512, 2048, MAX_UPLOAD_SIZE, MAX_UPLOAD_SIZE + 1},
     decodable : BOOLEAN,
     picture : ApiPictures,
     user_age : ApiAges,
     vision_service : {"ok", "None"},
     llm_service : {"ok", "raises", "None"}]

ApiBaseRequest ==
    [entry |-> "luna-health-app",
     analysis_type |-> "skin",
     content_type |-> "image/jpeg",
     reports_size |-> TRUE,
     length |-> 2048,
     decodable |-> TRUE,
     picture |-> [mode |-> "RGB", width |-> 300, height |-> 300,
                  uniform |-> FALSE, lap_var |-> MaxBlur],
     user_age |-> [given |-> FALSE, value |-> 0],
     vision_service |-> "ok",
     llm_service |-> "ok"]

\* the fields in which a request differs from the base request
Differs(r) == {f \in DOMAIN r \ {"entry"} : r[f] # ApiBaseRequest[f]}

\* The requests of the model: the base request with one field changed, or
\* with the byte count changed on an upload that reports no size.
ApiRequests ==
    {r \in ApiRequestSpace :
        \/ Cardinality(Differs(r)) <= 1
        \/ Differs(r) = {"reports_size", "length"}}

\* a response of the handler; an HTTPException becomes status "error"
ApiError(status_code, detail) ==
    [status_code |-> status_code, status |-> "error", detail |-> detail,
     confidence_score |-> 0, recommendations |-> <<>>, health_assessment |-> "None"]

\* validate_image_file: the content type, and the size when the upload
\* object has a non-zero size attribute
validate_image_file(file) ==
    [valid |-> /\ file.content_type \in ALLOWED_TYPES
               /\ ~(file.reports_size /\ file.length # 0 /\ file.length > MAX_UPLOAD_SIZE),
     issues |-> (IF file.content_type \notin ALLOWED_TYPES THEN {"Invalid file type"} ELSE {})
                \cup (IF file.reports_size /\ file.length # 0 /\ file.length > MAX_UPLOAD_SIZE
                      THEN {"File too large"} ELSE {})]

\* process_image_safely: Image.open, then the conversion of every mode other
\* than RGB and L to RGB; a failure of Image.open becomes an HTTP 400
process_image_safely(file) ==
    IF ~file.decodable
    THEN [raised |-> TRUE, image |-> NoValue]
    ELSE [raised |-> FALSE,
          image |-> IF file.picture.mode \in {"RGB", "L"}
                    THEN file.picture
                    ELSE [file.picture EXCEPT !.mode = "RGB"]]

\* if vision_service is None: raise HTTPException(503); then, inside the try
\* block, the check of analysis_type and validate_image_file
ApiValidate ==
    /\ api_pc = "received"
    /\ upload.entry = "luna-health-app"
    /\ IF upload.vision_service = "None"
       THEN /\ final_response' = ApiError(503, "Vision analysis service unavailable")
            /\ api_pc' = "responded"
       ELSE IF upload.analysis_type \notin {"skin", "discharge"}
       THEN /\ final_response' = ApiError(400, "Invalid analysis type")
            /\ api_pc' = "responded"
       ELSE IF ~validate_image_file(upload).valid
       THEN /\ final_response' = ApiError(400, "File validation failed")
            /\ api_pc' = "responded"
       ELSE /\ api_pc' = "validated"
            /\ UNCHANGED final_response
    /\ UNCHANGED <<upload, decoded_sizes, visionVars>>

\* contents = await file.read(), the check for an empty payload,
\* process_image_safely, parse_symptoms_safely, the check of user_age, and
\* the call of analyze_skin_condition / analyze_discharge
ApiReadAndDecode ==
    /\ api_pc = "validated"
    /\ IF upload.length = 0
       THEN /\ final_response' = ApiError(400, "Empty file uploaded")
            /\ api_pc' = "responded"
            /\ UNCHANGED <<decoded_sizes, visionVars>>
       ELSE LET processed == process_image_safely(upload)
            IN  /\ decoded_sizes' = decoded_sizes \cup {upload.length}
                /\ IF processed.raised
                   THEN /\ final_response' = ApiError(400, "Invalid image file")
                        /\ api_pc' = "responded"
                        /\ UNCHANGED visionVars
                   ELSE IF upload.user_age.given
                           /\ (upload.user_age.value < 0 \/ upload.user_age.value > 120)
                   THEN /\ final_response' = ApiError(400, "Invalid age provided")
                        /\ api_pc' = "responded"
                        /\ UNCHANGED visionVars
                   ELSE /\ api_pc' = "analyzing"
                        /\ image' = processed.image
                        /\ analysis_type' = upload.analysis_type
                        /\ pc' = "received"
                        /\ UNCHANGED <<final_response, enhanced, quality_assessment,
                                       gpt4_result, resnet_result, ensemble_confidence,
                                       result, gpt4_calls, resnet_calls>>
    /\ UNCHANGED upload

\* After the analysis: the LLM assessment (its failure is caught), the
\* response dict and JSONResponse(content=final_response).  The dict of a
\* successful analysis holds quality_assessment, whose is_sharp and
\* suitable_for_analysis are numpy.bool_ values (comparisons of numpy floats);
\* json.dumps inside JSONResponse raises TypeError on them, which the
\* except Exception of the handler turns into an HTTP 500.  The dict of a
\* failed analysis holds only strings, a bool and a float and is rendered.
ApiRespond ==
    /\ api_pc = "analyzing"
    /\ pc = "returned"
    /\ IF result.success
       THEN final_response' = ApiError(500, "Image analysis failed")
       ELSE final_response' =
                [status_code |-> 200, status |-> "success", detail |-> "None",
                 confidence_score |-> result.ensemble_confidence,
                 recommendations |-> result.recommendations,
                 health_assessment |-> CASE upload.llm_service = "None" -> "None"
                                         [] upload.llm_service = "raises" -> "failed"
                                         [] OTHER -> "ok"]
    /\ api_pc' = "responded"
    /\ UNCHANGED <<upload, decoded_sizes, visionVars>>

----------------------------------------------------------------------------
(* POST /analyze-image: backend/app/api/endpoints/health_analysis.py       *)

BACKEND_ALLOWED_TYPES == {"image/jpeg", "image/png", "image/webp"}

\* the check of the content type, the first statement of the handler
BackendCheckType ==
    /\ api_pc = "received"
    /\ upload.entry = "backend"
    /\ IF upload.content_type \notin BACKEND_ALLOWED_TYPES
       THEN /\ final_response' = ApiError(400, "Invalid file type")
            /\ api_pc' = "responded"
       ELSE /\ api_pc' = "validated_backend"
            /\ UNCHANGED final_response
    /\ UNCHANGED <<upload, decoded_sizes, visionVars>>

\* contents = await file.read(); image = Image.open(io.BytesIO(contents)).
\* Nothing looks at the number of bytes, and the statement is in no try
\* block: bytes that do not decode end the request with the generic 500.
BackendReadAndDecode ==
    /\ api_pc = "validated_backend"
    /\ decoded_sizes' = decoded_sizes \cup {upload.length}
    /\ IF upload.length = 0 \/ ~upload.decodable
       THEN /\ final_response' = ApiError(500, "Internal Server Error")
            /\ api_pc' = "responded"
       ELSE /\ api_pc' = "decoded_backend"
            /\ UNCHANGED final_response
    /\ UNCHANGED <<upload, visionVars>>

\* LLMHealthService._parse_health_response: json.loads(response), and the
\* fallback of the bare except that wraps the raw text
_parse_health_response(llm_response) ==
    IF llm_response.kind \in {"json_object", "json_other"}
    THEN [source |-> llm_response.kind, condition_overview |-> "parsed",
          severity |-> llm_response.severity]
    ELSE [source |-> "fallback", condition_overview |-> "raw text",
          severity |-> "unknown"]

\* LLMHealthService.analyze_with_context from the call of the LLM on:
\* structured_response["disclaimers"] = [...] is an item assignment, which
\* raises TypeError on a list, a number, a string or None; the except
\* Exception of the method answers with an error dict.
analyze_with_context(llm_response) ==
    LET structured_response == _parse_health_response(llm_response)
    IN  IF llm_response.kind = "raise"
        THEN [source |-> "error", condition_overview |-> "None", severity |-> "None",
              disclaimers |-> FALSE, error |-> "the LLM call raised"]
        ELSE IF structured_response.source = "json_other"
        THEN [source |-> "error", condition_overview |-> "None", severity |-> "None",
              disclaimers |-> FALSE, error |-> "TypeError"]
        ELSE [source |-> structured_response.source,
              condition_overview |-> structured_response.condition_overview,
              severity |-> structured_response.severity,
              disclaimers |-> TRUE, error |-> "None"]

\* get_vision_service(), the analysis of the BLIP-based service of
\* backend/app/services/vision_analysis.py (which catches what it raises and
\* answers with a dict without ensemble_confidence and recommendations), the
\* LLM assessment and the response
BackendAnalyzeAndRespond ==
    /\ api_pc = "decoded_backend"
    /\ IF upload.vision_service = "None"
       THEN final_response' = ApiError(503, "Vision analysis service unavailable")
       ELSE IF upload.analysis_type \notin {"skin", "discharge"}
       THEN final_response' = ApiError(400, "Invalid analysis type")
       ELSE \E llm_response \in HbLlmOutcomes :
              final_response' =
                [status_code |-> 200, status |-> "success", detail |-> "None",
                 confidence_score |-> (8 * ONE) \div 10,
                 recommendations |-> <<>>,
                 health_assessment |-> CASE upload.llm_service = "None" -> "None"
                                         [] upload.llm_service = "raises" -> "failed"
                                         [] OTHER -> analyze_with_context(llm_response)]
    /\ api_pc' = "responded"
    /\ UNCHANGED <<upload, decoded_sizes, visionVars>>

\* one request at one of the two analyze-image handlers
InitApi ==
    /\ VisionIdle
    /\ HistoryIdle
    /\ HbIdle
    /\ PatternIdle
    /\ LazyIdle
    /\ upload \in ApiRequests
    /\ api_pc = "received"
    /\ decoded_sizes = {}
    /\ final_response = NoValue

NextApi ==
    \/ (ApiValidate /\ UNCHANGED <<hbVars, patternVars, initVars, historyVars>>)
    \/ (ApiReadAndDecode /\ UNCHANGED <<hbVars, patternVars, initVars, historyVars>>)
    \/ (Preprocess /\ UNCHANGED <<hbVars, patternVars, apiVars, initVars, historyVars>>)
    \/ (AssessQuality /\ UNCHANGED <<hbVars, patternVars, apiVars, initVars, historyVars>>)
    \/ (GetGpt4VisionAnalysis /\ UNCHANGED <<hbVars, patternVars, apiVars, initVars, historyVars>>)
    \/ (GetResnetPrediction /\ UNCHANGED <<hbVars, patternVars, apiVars, initVars, historyVars>>)
    \/ (CalculateEnsembleConfidence /\ UNCHANGED <<hbVars, patternVars, apiVars, initVars, historyVars>>)
    \/ (Assemble /\ UNCHANGED <<hbVars, patternVars, apiVars, initVars, historyVars>>)
    \/ (ApiRespond /\ UNCHANGED <<hbVars, patternVars, initVars, historyVars>>)
    \/ (BackendCheckType /\ UNCHANGED <<hbVars, patternVars, initVars, historyVars>>)
    \/ (BackendReadAndDecode /\ UNCHANGED <<hbVars, patternVars, initVars, historyVars>>)
    \/ (BackendAnalyzeAndRespond /\ UNCHANGED <<hbVars, patternVars, initVars, historyVars>>)

SpecApi == InitApi /\ [][NextApi]_vars

----------------------------------------------------------------------------
(* Lazy initialisation of the services of backend/:                        *)
(* NailHemoglobinService._initialize_models, PatternDetectionService       *)
(* .load_model and get_vision_service.  Each is a plain function called    *)
(* from an async handler after the handler's await of file.read(), so     *)
(* requests interleave between calls and never inside one.                 *)

MaxRequests == 3

LazyServices == {"nail_hemoglobin", "pattern_detection", "vision"}

\* the weights each service holds
WeightsOf(service) ==
    CASE service = "nail_hemoglobin" -> {"nail_detector", "hemoglobin_predictor"}
      [] service = "pattern_detection" -> {"pattern_classifier"}
      [] service = "vision" -> {"vision_service"}

AllWeights == UNION {WeightsOf(service) : service \in LazyServices}

\* the guard that ignores what is already held
NeedsLoad_always(held) == TRUE

\* the guards "if self.model is not None: return True" and
\* "if _vision_service is None:"
NeedsLoad(held) == held = 0

\* the objects a request works with once its service is initialised
Held(service) == [w \in WeightsOf(service) |-> instance[w]]

\* reading one set of weights from disk into a new object
LoadInto(weights) ==
    /\ load_count' = [w \in AllWeights |->
                        IF w \in weights THEN load_count[w] + 1 ELSE load_count[w]]
    /\ instance' = [w \in AllWeights |->
                      IF w \in weights THEN load_count[w] + 1 ELSE instance[w]]

Finish(i, outcome) ==
    requests' = [requests EXCEPT ![i].pc = outcome,
                                 ![i].got = IF outcome = "initialized"
                                            THEN [w \in WeightsOf(requests[i].service)
                                                      |-> instance'[w]]
                                            ELSE NoValue]

\* Faulty variant: the flag is set before the second model is built
InitializeModels_flag_first(i) ==
    /\ requests[i].service = "nail_hemoglobin"
    /\ requests[i].pc = "pending"
    /\ IF models_initialized
       THEN /\ UNCHANGED <<models_initialized, loaded, load_count, instance,
                           analysis_result>>
            /\ Finish(i, "initialized")
       ELSE IF ~model_files.nail \/ ~model_files.hemoglobin
       THEN /\ UNCHANGED <<models_initialized, loaded, load_count, instance>>
            /\ analysis_result' = AnalysisFailedResult("model not found")
            /\ Finish(i, "failed")
       ELSE \E load \in {"ok", "nail detector raises", "hemoglobin predictor raises"} :
              CASE load = "ok" ->
                     /\ LoadInto({"nail_detector", "hemoglobin_predictor"})
                     /\ loaded' = {"nail_detector", "hemoglobin_predictor"}
                     /\ models_initialized' = TRUE
                     /\ UNCHANGED analysis_result
                     /\ Finish(i, "initialized")
                [] load = "nail detector raises" ->
                     /\ UNCHANGED <<models_initialized, loaded, load_count, instance>>
                     /\ analysis_result' = AnalysisFailedResult(load)
                     /\ Finish(i, "failed")
                [] load = "hemoglobin predictor raises" ->
                     /\ LoadInto({"nail_detector"})
                     /\ loaded' = loaded \cup {"nail_detector"}
                     /\ models_initialized' = TRUE
                     /\ analysis_result' = AnalysisFailedResult(load)
                     /\ Finish(i, "failed")
    /\ UNCHANGED <<model_files, hb_pc, raw_detections, nail_results,
                   hemoglobin_predictions, predict_calls,
                   health_assessment, endpoint_pc, response>>

\* NailHemoglobinService._initialize_models, as analyze_hemoglobin calls it:
\* whatever it raises is caught there and returned as the failure dict
InitializeModels(i) ==
    /\ requests[i].service = "nail_hemoglobin"
    /\ requests[i].pc = "pending"
    /\ IF models_initialized
       THEN /\ UNCHANGED <<models_initialized, loaded, load_count, instance,
                           analysis_result>>
            /\ Finish(i, "initialized")
       ELSE IF ~model_files.nail \/ ~model_files.hemoglobin
       THEN /\ UNCHANGED <<models_initialized, loaded, load_count, instance>>
            /\ analysis_result' = AnalysisFailedResult("model not found")
            /\ Finish(i, "failed")
       ELSE \E load \in {"ok", "nail detector raises", "hemoglobin predictor raises"} :
              CASE load = "ok" ->
                     /\ LoadInto({"nail_detector", "hemoglobin_predictor"})
                     /\ loaded' = {"nail_detector", "hemoglobin_predictor"}
                     /\ models_initialized' = TRUE
                     /\ UNCHANGED analysis_result
                     /\ Finish(i, "initialized")
                [] load = "nail detector raises" ->
                     /\ UNCHANGED <<models_initialized, loaded, load_count, instance>>
                     /\ analysis_result' = AnalysisFailedResult(load)
                     /\ Finish(i, "failed")
                [] load = "hemoglobin predictor raises" ->
                     /\ LoadInto({"nail_detector"})
                     /\ loaded' = loaded \cup {"nail_detector"}
                     /\ UNCHANGED models_initialized
                     /\ analysis_result' = AnalysisFailedResult(load)
                     /\ Finish(i, "failed")
    /\ UNCHANGED <<model_files, hb_pc, raw_detections, nail_results,
                   hemoglobin_predictions, predict_calls,
                   health_assessment, endpoint_pc, response>>

\* PatternDetectionService.load_model
load_model(i) ==
    /\ requests[i].service = "pattern_detection"
    /\ requests[i].pc = "pending"
    /\ IF ~NeedsLoad(instance["pattern_classifier"])
       THEN /\ UNCHANGED <<load_count, instance>>
            /\ Finish(i, "initialized")
       ELSE \E load \in {"model file missing", "torch.load raises",
                          "load_state_dict raises", "ok"} :
              CASE load \in {"model file missing", "torch.load raises"} ->
                     /\ UNCHANGED <<load_count, instance>>
                     /\ Finish(i, "failed")
                [] load = "load_state_dict raises" ->
                     \* the checkpoint was read; self.model is set back to None
                     /\ load_count' = [load_count EXCEPT !["pattern_classifier"] = @ + 1]
                     /\ UNCHANGED instance
                     /\ Finish(i, "failed")
                [] load = "ok" ->
                     /\ LoadInto({"pattern_classifier"})
                     /\ Finish(i, "initialized")
    /\ UNCHANGED hbVars

\* get_vision_service
get_vision_service(i) ==
    /\ requests[i].service = "vision"
    /\ requests[i].pc = "pending"
    /\ IF ~NeedsLoad(instance["vision_service"])
       THEN /\ UNCHANGED <<load_count, instance>>
            /\ Finish(i, "initialized")
       ELSE \E load \in {"ok", "VisionAnalysisService raises"} :
              IF load = "ok"
              THEN /\ LoadInto({"vision_service"})
                   /\ Finish(i, "initialized")
              ELSE /\ UNCHANGED <<load_count, instance>>
                   /\ Finish(i, "failed")
    /\ UNCHANGED hbVars

\* a fresh process, and the first requests that have each passed the await
\* of their handler
InitLazy ==
    /\ VisionIdle
    /\ HistoryIdle
    /\ PatternIdle
    /\ ApiIdle
    /\ model_files \in [nail : BOOLEAN, hemoglobin : BOOLEAN]
    /\ models_initialized = FALSE
    /\ loaded = {}
    /\ hb_pc = "idle"
    /\ raw_detections = <<>>
    /\ nail_results = NoValue
    /\ hemoglobin_predictions = <<>>
    /\ predict_calls = 0
    /\ analysis_result = NoValue
    /\ health_assessment = NoValue
    /\ endpoint_pc = "idle"
    /\ response = NoValue
    /\ requests \in [1..MaxRequests -> [service : LazyServices, pc : {"pending"},
                                        got : {NoValue}]]
    /\ load_count = [w \in AllWeights |-> 0]
    /\ instance = [w \in AllWeights |-> 0]

NextLazy ==
    \/ \E i \in 1..MaxRequests :
          InitializeModels(i) /\ UNCHANGED <<visionVars, patternVars, apiVars, historyVars>>
    \/ \E i \in 1..MaxRequests :
          load_model(i) /\ UNCHANGED <<visionVars, patternVars, apiVars, historyVars>>
    \/ \E i \in 1..MaxRequests :
          get_vision_service(i) /\ UNCHANGED <<visionVars, patternVars, apiVars, historyVars>>

SpecLazy == InitLazy /\ [][NextLazy]_vars

----------------------------------------------------------------------------
(* Two runs of analyze_skin_condition / analyze_discharge on one service   *)
(* object and one image, with a vision-language analyzer that answers the  *)
(* same both times.  VisionAnalysisService.__init__ calls                  *)
(* resnet_model.eval() only after a checkpoint was loaded; a model as      *)
(* constructed is in training mode and its two Dropout layers draw a new   *)
(* mask on every forward pass.                                             *)

\* The softmax outputs the classifier of one run can give for the image:
\* the vectors whose non-zero entries are each about a half or more.
RerunVectors ==
    {p \in ProbVectors :
        \A i \in 1..NumClasses :
            p[i] = 0 \/ p[i] >= (ProbSteps \div 2) * (ONE \div ProbSteps)}

\* the second call of the analyzer answers as the first did
SameAnalyzerAnswer ==
    first_run # NoValue => gpt4_result' = first_run.gpt4_result

\* self.resnet_model(input_tensor): in evaluation mode a function of the
\* input, in training mode also of the dropout masks
ForwardPass ==
    /\ resnet_result'.success => resnet_result'.all_probabilities \in RerunVectors
    /\ (first_run # NoValue /\ ~training) => resnet_result' = first_run.resnet_result

\* the same image is handed to the same service a second time
Rerun ==
    /\ pc = "returned"
    /\ first_run = NoValue
    /\ first_run' = [result |-> result, gpt4_result |-> gpt4_result,
                     resnet_result |-> resnet_result]
    /\ pc' = "received"
    /\ enhanced' = NoValue
    /\ quality_assessment' = NoValue
    /\ gpt4_result' = NoValue
    /\ resnet_result' = NoValue
    /\ ensemble_confidence' = 0
    /\ result' = NoValue
    /\ gpt4_calls' = 0
    /\ resnet_calls' = 0
    /\ UNCHANGED <<analysis_type, image, training>>

\* a service constructed with or without a checkpoint at RESNET_MODEL_PATH
InitTwice ==
    /\ InitVisionState
    /\ image \in {im \in RequestImages : im.mode = "RGB" /\ im.lap_var = MaxBlur}
    /\ HbIdle
    /\ PatternIdle
    /\ ApiIdle
    /\ LazyIdle
    /\ training \in BOOLEAN
    /\ first_run = NoValue

NextTwice ==
    \/ (Preprocess /\ UNCHANGED <<hbVars, patternVars, apiVars, initVars, historyVars>>)
    \/ (AssessQuality /\ UNCHANGED <<hbVars, patternVars, apiVars, initVars, historyVars>>)
    \/ (GetGpt4VisionAnalysis /\ SameAnalyzerAnswer
            /\ UNCHANGED <<hbVars, patternVars, apiVars, initVars, historyVars>>)
    \/ (GetResnetPrediction /\ ForwardPass
            /\ UNCHANGED <<hbVars, patternVars, apiVars, initVars, historyVars>>)
    \/ (CalculateEnsembleConfidence
            /\ UNCHANGED <<hbVars, patternVars, apiVars, initVars, historyVars>>)
    \/ (Assemble /\ UNCHANGED <<hbVars, patternVars, apiVars, initVars, historyVars>>)
    \/ (Rerun /\ UNCHANGED <<hbVars, patternVars, apiVars, initVars>>)

SpecTwice == InitTwice /\ [][NextTwice]_vars

----------------------------------------------------------------------------
(* Properties *)

\* the largest entry of a non-empty sequence of numbers
MaxOf(seq) == CHOOSE m \in {seq[i] : i \in 1..Len(seq)} : \A i \in 1..Len(seq) : seq[i] <= m

\* both model calls of the request have been made and scoring has run
Scored == pc \in {"scored", "returned"} /\ gpt4_calls = 1 /\ resnet_calls = 1

\* the sub-results of a model call that failed
FailedGpt4 == get_gpt4_vision_analysis([kind |-> "raise", len |-> 0, error |-> "timeout"])
FailedResnet == get_resnet_prediction([kind |-> "raise", probabilities |-> <<>>], <<>>)

\* C1: calculate_ensemble_confidence returns exactly 0.3 when both the
\* classifier and the vision-language result are failures, and a value in
\* (0.3, 1.0] whenever at least one of the two succeeded.
C1_EnsembleFloorAndRange ==
    Scored =>
        IF ~gpt4_result.success /\ ~resnet_result.success
        THEN ensemble_confidence = (3 * ONE) \div 10
        ELSE ensemble_confidence > (3 * ONE) \div 10 /\ ensemble_confidence <= ONE

\* C2: the ensemble confidence is the arithmetic mean of the contributions
\* of the models that succeeded: the classifier contributes its top
\* probability, the vision-language analyzer 0.9 for a text longer than 100
\* characters and 0.8 otherwise (0.8 at exactly 100 characters).
C2_EnsembleIsMeanOfContributions ==
    Scored =>
        LET vl == IF gpt4_result.gpt4_analysis > 100
                  THEN (9 * ONE) \div 10 ELSE (8 * ONE) \div 10
            top == MaxOf(resnet_result.all_probabilities)
        IN  /\ (gpt4_result.success /\ resnet_result.success)
                  => 2 * ensemble_confidence = vl + top
            /\ (gpt4_result.success /\ ~resnet_result.success)
                  => ensemble_confidence = vl
            /\ (~gpt4_result.success /\ resnet_result.success)
                  => ensemble_confidence = top
            /\ (gpt4_result.success /\ ~resnet_result.success
                  /\ gpt4_result.gpt4_analysis = 100)
                  => ensemble_confidence = (8 * ONE) \div 10

\* C2 witness: both models succeeded on a text of exactly 100 characters
C2_Witness ==
    /\ Scored
    /\ gpt4_result.success /\ resnet_result.success
    /\ gpt4_result.gpt4_analysis = 100
    /\ 2 * ensemble_confidence = (8 * ONE) \div 10 + resnet_result.top_prediction.confidence

\* C3: when the vision-language call fails and the classifier succeeds, the
\* analysis still returns success, the vision-language sub-result is marked
\* failed and the ensemble confidence is the classifier's top confidence.
C3_GptFailureLeavesClassifierConfidence ==
    (pc = "returned" /\ gpt4_calls = 1 /\ resnet_calls = 1
        /\ ~gpt4_result.success /\ resnet_result.success)
    =>  /\ result.success
        /\ ~result.gpt4_vision.success
        /\ result.gpt4_vision.error \in {"timeout", "auth error", "malformed response"}
        /\ result.ensemble_confidence = MaxOf(resnet_result.all_probabilities)
        /\ result.ensemble_confidence = result.resnet_classification.top_prediction.confidence

\* C3 witness: a returned analysis whose vision-language call timed out
C3_Witness ==
    /\ pc = "returned" /\ gpt4_calls = 1 /\ resnet_calls = 1
    /\ ~gpt4_result.success /\ gpt4_result.error = "timeout"
    /\ resnet_result.success
    /\ result.success
    /\ result.ensemble_confidence = resnet_result.top_prediction.confidence

\* C4: neither model call propagates an exception: a failure becomes a
\* sub-result with success = false and the captured error, and the analysis
\* runs to completion and returns success = true.
C4_ModelFailuresAreAbsorbed ==
    /\ gpt4_calls = 1 =>
          /\ ~gpt4_result.raised
          /\ gpt4_result.success \/ gpt4_result.error # "None"
          /\ pc = "returned" => result.success
    /\ resnet_calls = 1 =>
          /\ ~resnet_result.raised
          /\ resnet_result.success \/ resnet_result.error # "None"
          /\ pc = "returned" => result.success

\* C4 witness: both calls failed and the analysis still returned success
C4_Witness ==
    /\ pc = "returned" /\ gpt4_calls = 1 /\ resnet_calls = 1
    /\ ~gpt4_result.success /\ gpt4_result.error = "auth error"
    /\ ~resnet_result.success /\ resnet_result.error # "None"
    /\ result.success

\* C5: the ensemble confidence obtained when one of the two models fails is
\* never higher than the one obtained when that model succeeds and the other
\* sub-result is unchanged.
C5_FailureNeverRaisesConfidence ==
    (Scored /\ gpt4_result.success /\ resnet_result.success)
    =>  /\ calculate_ensemble_confidence(gpt4_result, FailedResnet) <= ensemble_confidence
        /\ calculate_ensemble_confidence(FailedGpt4, resnet_result) <= ensemble_confidence

\* the raw detections that pass the filter of detect_nails, by position
Passes(d) == 10 * d.score >= 5 * ONE /\ d.label = 1

PassingIndices(raw) == {j \in 1..Len(raw) : Passes(raw[j])}

\* the position in raw of the i-th detection that passes
NthPassing(raw, i) ==
    CHOOSE j \in PassingIndices(raw) :
        Cardinality({k \in PassingIndices(raw) : k <= j}) = i

\* C6: when nail detection returns zero regions the request ends in an
\* explicit 'no nails detected' failure that the endpoint surfaces as an
\* error response (not a generic 500), and no regression, average or risk
\* classification is computed.
C6_NoNailsIsExplicitFailure ==
    (endpoint_pc = "responded" /\ PassingIndices(raw_detections) = {})
    =>  /\ response.status_code = 400
        /\ response.status = "error"
        /\ response.message = NoNailsMessage
        /\ predict_calls = 0

\* C7: a successful hemoglobin analysis with n >= 1 detected nails holds
\* exactly one regression result per detection (nail_id 1..n in detection
\* order, each with its source box and score), num_nails_detected = n, and
\* the average is the arithmetic mean of the n values ([118, 125, 132]
\* gives 125).
C7_OneResultPerNailAndMean ==
    (hb_pc \in {"returned", "assessed"} /\ analysis_result.success)
    =>  LET n == Cardinality(PassingIndices(raw_detections))
            na == analysis_result.nail_analysis
            preds == na.individual_predictions
            levels == [i \in 1..Len(preds) |-> preds[i].hemoglobin_g_per_L]
        IN  /\ n >= 1
            /\ Len(preds) = n
            /\ predict_calls = n
            /\ na.num_nails_detected = n
            /\ \A i \in 1..n :
                  /\ preds[i].nail_id = i
                  /\ preds[i].bounding_box = raw_detections[NthPassing(raw_detections, i)].box
                  /\ preds[i].confidence = raw_detections[NthPassing(raw_detections, i)].score
            /\ n * na.average_hemoglobin_g_per_L = SumSeq(levels)
            /\ levels = <<118 * HbScale, 125 * HbScale, 132 * HbScale>>
                  => na.average_hemoglobin_g_per_L = 125 * HbScale

\* C7 witness: three nails with 118, 125 and 132 g/L average to 125 g/L
C7_Witness ==
    /\ hb_pc = "returned" /\ analysis_result.success
    /\ analysis_result.nail_analysis.num_nails_detected = 3
    /\ Len(raw_detections) = 3
    /\ raw_detections[1].box # raw_detections[2].box
    /\ [i \in 1..3 |-> analysis_result.nail_analysis.individual_predictions[i].hemoglobin_g_per_L]
          = <<118 * HbScale, 125 * HbScale, 132 * HbScale>>
    /\ analysis_result.nail_analysis.average_hemoglobin_g_per_L = 125 * HbScale

\* C8: the anemia risk of an average v is 'high' iff v < 120, 'moderate'
\* iff 120 <= v < 140 and 'low' iff v >= 140; the severity field and the
\* severity of the LLM fallback carry the same label.
C8_RiskThresholds ==
    (hb_pc \in {"returned", "assessed"} /\ analysis_result.success)
    =>  LET v == analysis_result.nail_analysis.average_hemoglobin_g_per_L
            risk == analysis_result.anemia_risk
        IN  /\ risk \in {"high", "moderate", "low"}
            /\ risk = "high" <=> v < 120 * HbScale
            /\ risk = "moderate" <=> (120 * HbScale <= v /\ v < 140 * HbScale)
            /\ risk = "low" <=> v >= 140 * HbScale
            /\ analysis_result.severity = risk
            /\ (hb_pc = "assessed" /\ health_assessment.source = "fallback")
                  => health_assessment.severity = risk

\* C8 witness: an average of exactly 120 g/L over two different nail values,
\* classified 'moderate' by the service and by the LLM fallback
C8_Witness ==
    /\ hb_pc = "assessed" /\ analysis_result.success
    /\ analysis_result.nail_analysis.num_nails_detected = 2
    /\ analysis_result.nail_analysis.individual_predictions[1].hemoglobin_g_per_L = 118 * HbScale
    /\ analysis_result.nail_analysis.average_hemoglobin_g_per_L = 120 * HbScale
    /\ analysis_result.anemia_risk = "moderate"
    /\ health_assessment.source = "fallback"
    /\ health_assessment.severity = "moderate"

\* C9: for every image, overall_quality lies in [0,1], is the unweighted
\* mean of sharpness = min(blur / threshold, 1), resolution and
\* aspect_ratio, and suitable_for_analysis holds exactly when
\* overall_quality >= 0.7.
C9_QualityRangeMeanAndGate ==
    pc = "assessed" =>
        LET q == quality_assessment
            sharpness == IF image.lap_var >= 100 THEN ONE ELSE (image.lap_var * ONE) \div 100
        IN  /\ q.overall_quality >= 0 /\ q.overall_quality <= ONE
            /\ q.quality_factors.sharpness = sharpness
            /\ q.quality_factors.resolution \in {ONE, ONE \div 2}
            /\ q.quality_factors.aspect_ratio \in {ONE, (8 * ONE) \div 10}
            /\ 3 * q.overall_quality
                  = sharpness + q.quality_factors.resolution + q.quality_factors.aspect_ratio
            /\ q.suitable_for_analysis <=> 10 * q.overall_quality >= 7 * ONE

\* C9 witness: an image whose overall quality is exactly the threshold 0.7
C9_Witness ==
    /\ pc = "assessed"
    /\ image.lap_var = 10
    /\ 10 * quality_assessment.overall_quality = 7 * ONE
    /\ quality_assessment.suitable_for_analysis

\* C10: a uniform single-colour image that meets the minimum resolution and
\* is square is assessed with overall_quality > 0.5 and
\* suitable_for_analysis = true, and its skin analysis yields a
\* classification with confidence > 0.3.
C10_UniformImageIsSuitable ==
    LET uniform_square == /\ image.uniform
                          /\ image.width = image.height
                          /\ image.width >= 100
    IN  /\ (pc = "assessed" /\ uniform_square)
              => /\ 2 * quality_assessment.overall_quality > ONE
                 /\ quality_assessment.suitable_for_analysis
        /\ (pc = "returned" /\ uniform_square /\ analysis_type = "skin" /\ image.mode = "RGB")
              => /\ result.success
                 /\ 10 * result.ensemble_confidence > 3 * ONE

\* C11: for every image whose width or height is below the minimum of
\* 100x100, meets_min_size is false, the analysis still completes with a
\* result, and the recommendations hold the notice that asks for the photo
\* to be retaken, whatever the sharpness and the aspect ratio of the image.
C11_LowResolutionGetsRetakeNotice ==
    (pc = "returned" /\ image.mode \in {"RGB", "RGBA"}
        /\ (image.width < 100 \/ image.height < 100))
    =>  /\ result.success
        /\ ~result.quality_assessment.resolution_info.meets_min_size
        /\ \E i \in 1..Len(result.recommendations) :
              result.recommendations[i] = QualityNotice

\* C12: overall_quality is monotonic in the blur score: of two assessments
\* with the same resolution and aspect-ratio factors, the one with the higher
\* blur score never has the lower overall_quality, and if the one with the
\* lower blur score is suitable for analysis, so is the other.
C12_QualityMonotonicInBlur ==
    pc = "assessed" =>
        \A w \in Dims, h \in Dims :
            LET q == quality_assessment
                pil_image == [image EXCEPT !.width = w, !.height = h]
                same == assess_quality(pil_image, enhanced).quality_factors
            IN  (/\ same.resolution = q.quality_factors.resolution
                 /\ same.aspect_ratio = q.quality_factors.aspect_ratio)
                =>  \A b \in image.lap_var..MaxBlur :
                        LET other == assess_quality(pil_image, [enhanced EXCEPT !.lap_var = b])
                        IN  /\ other.quality_factors.resolution = q.quality_factors.resolution
                            /\ other.quality_factors.aspect_ratio = q.quality_factors.aspect_ratio
                            /\ other.overall_quality >= q.overall_quality
                            /\ q.suitable_for_analysis => other.suitable_for_analysis

\* C12 witness: an image just below the quality threshold that one more unit
\* of blur score makes suitable, with a strictly higher overall quality
C12_Witness ==
    /\ pc = "assessed"
    /\ image.lap_var = 9
    /\ ~quality_assessment.suitable_for_analysis
    /\ LET sharper == assess_quality(image, [enhanced EXCEPT !.lap_var = 10])
       IN  /\ sharper.suitable_for_analysis
           /\ sharper.overall_quality > quality_assessment.overall_quality
           /\ assess_quality(image, [enhanced EXCEPT !.lap_var = MaxBlur]).suitable_for_analysis

\* the position of a label in self.medical_classes
ClassIndex(class_name) ==
    CHOOSE k \in 1..Len(medical_classes) : medical_classes[k] = class_name

\* C13: a successful get_resnet_prediction returns at most 3 ranked
\* predictions (exactly 3, ranked 1..3, when the model emits more than 3
\* logits), their confidences are in non-increasing order, each lies in
\* [0,1], their sum is at most 1, top_prediction is the first of them, and
\* equal probabilities are ordered by ascending class index.
C13_TopKRankedAndTiesByIndex ==
    (resnet_calls = 1 /\ resnet_result.success)
    =>  LET preds == resnet_result.predictions
            n == Len(preds)
        IN  /\ n <= 3
            /\ Len(resnet_result.all_probabilities) > 3 => n = 3
            /\ \A i \in 1..n :
                  /\ preds[i].rank = i
                  /\ preds[i].confidence >= 0 /\ preds[i].confidence <= ONE
            /\ \A i \in 1..n, j \in 1..n :
                  i < j => preds[i].confidence >= preds[j].confidence
            /\ SumSeq([i \in 1..n |-> preds[i].confidence]) <= ONE
            /\ resnet_result.top_prediction = preds[1]
            /\ \A i \in 1..n, j \in 1..n :
                  (i < j /\ preds[i].confidence = preds[j].confidence)
                      => ClassIndex(preds[i].class) < ClassIndex(preds[j].class)

\* a box of positive size that lies inside the image
InsideImage(bbox, shape) ==
    /\ bbox[3] > 0 /\ bbox[4] > 0
    /\ bbox[1] >= 0 /\ bbox[2] >= 0
    /\ bbox[1] + bbox[3] <= shape.width
    /\ bbox[2] + bbox[4] <= shape.height

\* C14: every bounding box detect_patterns_improved returns (after padding,
\* clamping and merge_nearby_boxes) has width > 0 and height > 0 and lies
\* inside the image: x >= 0, y >= 0, x + w <= width, y + h <= height.
C14_PatternBoxesInsideImage ==
    /\ pattern_pc \in {"candidates", "returned"} =>
          \A i \in 1..Len(candidate_bboxes) : InsideImage(candidate_bboxes[i], pattern_image)
    /\ pattern_pc = "returned" =>
          \A i \in 1..Len(merged_bboxes) : InsideImage(merged_bboxes[i], pattern_image)

\* C14 witness: two contours in the far corner whose padded boxes are cut at
\* the image edge and then merged into one box that ends on both edges
C14_Witness ==
    /\ pattern_pc = "returned"
    /\ contours = <<[rect |-> <<pattern_image.width - 12, pattern_image.height - 12, 12, 12>>,
                      area |-> 100],
                     [rect |-> <<pattern_image.width - 30, pattern_image.height - 20, 14, 10>>,
                      area |-> 80]>>
    /\ candidate_bboxes[1] = <<pattern_image.width - 16, pattern_image.height - 16, 16, 16>>
    /\ merged_bboxes = <<<<pattern_image.width - 35, pattern_image.height - 24, 35, 24>>>>

\* C15: every region that reaches the regressor has positive area and lies
\* within the image: for each detection kept by detect_nails, the integer
\* crop box (x1, y1, x2, y2) built in analyze_hemoglobin has x2 > x1 and
\* y2 > y1 and is inside the image; a detection whose crop would have no
\* area is dropped and not passed to predict_hemoglobin.
C15_CropsHavePositiveArea ==
    \A i \in 1..predict_calls :
        LET crop == crop_box(nail_results.boxes[i])
        IN  /\ crop[3] > crop[1]
            /\ crop[4] > crop[2]
            /\ crop[1] >= 0 /\ crop[2] >= 0
            /\ crop[3] <= NailImage.width
            /\ crop[4] <= NailImage.height

\* C16: preprocessing is total and shape-preserving: for every image that
\* passed validation, in any channel mode it can have at that point (RGB,
\* RGBA, L), preprocess_for_analysis completes without error and returns an
\* image with exactly 3 colour channels and the width and height of its
\* input, so the step from validated to preprocessed never leads to a failed
\* analysis.
C16_PreprocessingIsTotal ==
    (api_pc \in {"analyzing", "responded"} /\ pc \notin {"idle", "received"})
    =>  /\ image.mode \in {"RGB", "RGBA", "L"}
        /\ ~enhanced.raised
        /\ enhanced.channels = 3
        /\ enhanced.width = image.width
        /\ enhanced.height = image.height
        /\ pc = "returned" => result.success

\* C17: every response the analyze-image endpoint returns with status
\* 'success' carries a confidence_score of at least the floor 0.3 and at
\* most 1.0, on every path through the analysis including the one where an
\* internal stage raises.
C17_SuccessResponsesCarryFloor ==
    (api_pc = "responded" /\ final_response.status = "success")
    =>  /\ 10 * final_response.confidence_score >= 3 * ONE
        /\ final_response.confidence_score <= ONE

\* C20: the size check precedes decoding: on every image entry point, and
\* whether or not the upload object reports a size, no payload larger than
\* MAX_UPLOAD_SIZE is ever handed to Image.open.
C20_NoOversizePayloadIsDecoded ==
    \A length \in decoded_sizes : length <= MAX_UPLOAD_SIZE

\* C19: check_models_available reports models_ready exactly when both the
\* nail-detection and the hemoglobin model files exist; whenever models_ready
\* is false the analyze-hemoglobin endpoint answers 503 'service unavailable'
\* without loading any model; and the status query answers with the
\* readiness of the models, never with an error.
C19_MissingModelsAnswer503 ==
    /\ \A files \in [nail : BOOLEAN, hemoglobin : BOOLEAN] :
          check_models_available(files).models_ready
              <=> (files.nail /\ files.hemoglobin)
    /\ (endpoint_pc = "responded" /\ ~check_models_available(model_files).models_ready)
       =>  /\ response.status_code = 503
           /\ loaded = {}
           /\ ~models_initialized
    /\ endpoint_pc = "status_responded"
       =>  response.status = (IF check_models_available(model_files).models_ready
                              THEN "ready" ELSE "not_ready")

\* the requests of a service whose initialisation raised or returned nothing
FailedInitializations(service) ==
    Cardinality({i \in 1..MaxRequests :
                    requests[i].service = service /\ requests[i].pc = "failed"})

\* C18 (as stated): under any interleaving of concurrent first requests, each
\* set of model weights is loaded at most once per process.
C18_EachWeightsLoadedAtMostOnce ==
    \A w \in AllWeights : load_count[w] <= 1

\* C18 (corrected): under any interleaving of concurrent first requests, each
\* set of model weights is loaded at most once more than the number of
\* initialisations that failed, so at most once when none fails; once a
\* service is initialised, every request gets the same instances, which are
\* the ones the service holds.
C18_SingleFlightUnlessInitializationFails ==
    \A service \in LazyServices :
        /\ \A w \in WeightsOf(service) :
              load_count[w] <= 1 + FailedInitializations(service)
        /\ \A i \in 1..MaxRequests :
              (requests[i].service = service /\ requests[i].pc = "initialized")
              =>  /\ requests[i].got = Held(service)
                  /\ \A w \in WeightsOf(service) : requests[i].got[w] # 0

\* every request is served by the nail service, all from the one load
C18_Witness ==
    /\ \A i \in 1..MaxRequests :
          /\ requests[i].service = "nail_hemoglobin"
          /\ requests[i].pc = "initialized"
    /\ load_count["nail_detector"] = 1
    /\ load_count["hemoglobin_predictor"] = 1

\* C21: input errors stop the pipeline immediately: a request whose MIME
\* type is outside the allow-list, whose payload is empty, or whose bytes do
\* not decode to an image is answered with a 4xx input error (never a 500),
\* and no preprocessing, classification or LLM stage is invoked for it.
C21_InputErrorsAreRejectedWith4xx ==
    (/\ api_pc = "responded"
     /\ \/ upload.content_type \notin BACKEND_ALLOWED_TYPES
        \/ upload.length = 0
        \/ ~upload.decodable)
    =>  /\ final_response.status = "error"
        /\ final_response.status_code \in 400..499
        /\ pc = "idle"
        /\ gpt4_calls = 0
        /\ resnet_calls = 0

\* C22: on every inference entry point a supplied user age outside [0, 120]
\* is rejected as a validation error and no model stage runs for the
\* request; an age within [0, 120] or an absent age is never the reason of
\* a rejection.
C22_AgeOutsideRangeIsRejected ==
    api_pc = "responded"
    =>  IF upload.user_age.given
           /\ (upload.user_age.value < 0 \/ upload.user_age.value > 120)
        THEN /\ final_response.status = "error"
             /\ final_response.status_code \in 400..499
             /\ gpt4_calls = 0
             /\ resnet_calls = 0
        ELSE final_response.detail # "Invalid age provided"

\* C23: the pipeline is deterministic: a second run of analyze_skin_condition
\* / analyze_discharge on the same image, with an analyzer that answers the
\* same, returns a result equal to the first run's in every field, also when
\* no checkpoint was loaded and the classifier is used as constructed.
C23_SecondRunReturnsTheSameResult ==
    (first_run # NoValue /\ pc = "returned") => result = first_run.result

\* C24: no retries and ordered scoring: within one analysis request the
\* vision-language call is issued at most once, also when it fails, the
\* classifier is invoked at most once, and calculate_ensemble_confidence has
\* run only when both calls have been issued once and have returned.
C24_NoRetriesAndOrderedScoring ==
    /\ gpt4_calls <= 1
    /\ resnet_calls <= 1
    /\ (gpt4_result # NoValue) <=> (gpt4_calls = 1)
    /\ (resnet_result # NoValue) <=> (resnet_calls = 1)
    /\ resnet_calls <= gpt4_calls
    /\ (pc = "scored" \/ ensemble_confidence # 0 \/ (pc = "returned" /\ result.success))
       =>  /\ gpt4_calls = 1
           /\ resnet_calls = 1
           /\ gpt4_result # NoValue
           /\ resnet_result # NoValue

\* scored after a failed vision-language call and a failed forward pass
C24_Witness ==
    /\ pc = "scored"
    /\ ~gpt4_result.success
    /\ ~resnet_result.success
    /\ gpt4_calls = 1
    /\ resnet_calls = 1

\* C25: detect_nails returns exactly the raw detections whose score is at
\* least 0.5 and whose label is 1, in the detector's order: nothing below the
\* threshold or with another label is returned, boxes and scores stay paired
\* index by index, and num_nails is the number of returned boxes.
C25_DetectNailsKeepsExactlyThePassing ==
    nail_results # NoValue
    =>  LET n == Cardinality(PassingIndices(raw_detections))
        IN  /\ nail_results.num_nails = n
            /\ Len(nail_results.boxes) = n
            /\ Len(nail_results.scores) = n
            /\ \A i \in 1..n :
                  LET d == raw_detections[NthPassing(raw_detections, i)]
                  IN  /\ nail_results.boxes[i] = d.box
                      /\ nail_results.scores[i] = d.score
                      /\ 2 * nail_results.scores[i] >= ONE

\* a background detection between two nails is dropped, and a nail whose
\* score is exactly 0.5 is kept
C25_Witness ==
    /\ nail_results # NoValue
    /\ Len(raw_detections) = 3
    /\ raw_detections[2].label = 0
    /\ nail_results.num_nails = 2
    /\ nail_results.scores[2] = ONE \div 2
    /\ nail_results.boxes[1] # nail_results.boxes[2]

RECURSIVE ReachableFrom(_, _, _)
\* the boxes joined to those of S by a chain of at most k links, a link
\* being a pair of boxes whose centres are nearer than the threshold
ReachableFrom(bboxes, S, k) ==
    IF k = 0 THEN S
    ELSE ReachableFrom(bboxes,
                       S \cup {j \in 1..Len(bboxes) :
                                  \E i \in S : IsNearby(bboxes[i], bboxes[j], MERGE_DISTANCE)},
                       k - 1)

\* the clusters of single-linkage clustering over the box centres
Clusters(bboxes) ==
    {ReachableFrom(bboxes, {i}, Len(bboxes)) : i \in 1..Len(bboxes)}

\* the lists that hold the same boxes in another order
Reorderings(bboxes) ==
    {[i \in 1..Len(bboxes) |-> bboxes[f[i]]] :
        f \in {g \in [1..Len(bboxes) -> 1..Len(bboxes)] :
                  \A a, b \in 1..Len(bboxes) : a # b => g[a] # g[b]}}

\* the set of boxes of a list
Range(seq) == {seq[i] : i \in 1..Len(seq)}

\* C26: merge_nearby_boxes is single-linkage clustering over the box
\* centres: there is one output box per cluster of boxes connected by chains
\* of centres nearer than 30 px, namely the box that spans the cluster (so a
\* chain A-B-C with A and C further apart gives one box), and the outcome
\* does not depend on the order of the input list.
C26_MergeIsSingleLinkage ==
    pattern_pc = "returned"
    =>  /\ Range(merged_bboxes)
              = {GroupBox(candidate_bboxes, cluster) : cluster \in Clusters(candidate_bboxes)}
        /\ \A reordered \in Reorderings(candidate_bboxes) :
              Range(merge_nearby_boxes(reordered, MERGE_DISTANCE)) = Range(merged_bboxes)

\* the tight bounding rectangle of the boxes of a list at the given positions
TightBox(bboxes, group) ==
    LET sides == [left : {bboxes[k][1] : k \in group},
                  top : {bboxes[k][2] : k \in group},
                  right : {bboxes[k][1] + bboxes[k][3] : k \in group},
                  bottom : {bboxes[k][2] + bboxes[k][4] : k \in group}]
        tight == CHOOSE r \in sides :
                     \A k \in group :
                         /\ r.left <= bboxes[k][1]
                         /\ r.top <= bboxes[k][2]
                         /\ bboxes[k][1] + bboxes[k][3] <= r.right
                         /\ bboxes[k][2] + bboxes[k][4] <= r.bottom
    IN  <<tight.left, tight.top, tight.right - tight.left, tight.bottom - tight.top>>

\* C27: merge_nearby_boxes never loses or invents area: the input boxes can
\* be divided into non-empty groups, one per output box and each input in
\* exactly one, such that every output box is the tight bounding rectangle
\* of its group and so contains each box of the group; a non-empty input
\* gives between 1 and as many output boxes as inputs, and a list of zero or
\* one boxes is returned unchanged.
C27_MergeKeepsEveryBoxInOneGroup ==
    pattern_pc = "returned"
    =>  LET n == Len(candidate_bboxes)
            m == Len(merged_bboxes)
        IN  /\ n <= 1 => merged_bboxes = candidate_bboxes
            /\ n >= 1 => (1 <= m /\ m <= n)
            /\ \E group_of \in [1..n -> 1..m] :
                  \A k \in 1..m :
                      LET group == {i \in 1..n : group_of[i] = k}
                      IN  /\ group # {}
                          /\ merged_bboxes[k] = TightBox(candidate_bboxes, group)

\* three boxes in a chain: the first takes the second, the third stays alone
C27_Witness ==
    /\ pattern_pc = "returned"
    /\ Len(candidate_bboxes) = 3
    /\ Len(merged_bboxes) = 2
    /\ IsNearby(candidate_bboxes[1], candidate_bboxes[2], MERGE_DISTANCE)
    /\ IsNearby(candidate_bboxes[2], candidate_bboxes[3], MERGE_DISTANCE)
    /\ ~IsNearby(candidate_bboxes[1], candidate_bboxes[3], MERGE_DISTANCE)
    /\ merged_bboxes[1] = <<32, 22, 46, 36>>
    /\ merged_bboxes[2] = candidate_bboxes[3]

\* C28: for every LLM response text the health assessment built by
\* analyze_with_context is a structured record: the parsed structure when
\* the text is JSON, otherwise the raw text wrapped as condition_overview
\* with the boilerplate lists; in both cases the disclaimers are attached,
\* and no response text makes the assessment fail or lose the LLM's content.
C28_EveryResponseTextGivesAnAssessment ==
    (/\ api_pc = "responded"
     /\ upload.entry = "backend"
     /\ upload.llm_service = "ok"
     /\ final_response.status = "success"
     /\ final_response.health_assessment.error # "the LLM call raised")
    =>  LET assessment == final_response.health_assessment
        IN  /\ assessment.source \in {"json_object", "json_other", "fallback"}
            /\ assessment.source = "fallback" <=> assessment.condition_overview = "raw text"
            /\ assessment.source # "fallback" <=> assessment.condition_overview = "parsed"
            /\ assessment.disclaimers

\* the bucket a class name is counted in
Bucket(class_name) ==
    IF class_name \in {"bipolar-circle", "radial-cross", "uncertain", "error"}
    THEN class_name ELSE "uncertain"

\* C29: in every successful analyze_patterns result the counts are
\* consistent: total_patterns_detected is the number of boxes and the length
\* of individual_detections, and the sum of the four pattern_counts buckets;
\* every detection is counted in exactly one bucket, a class name outside the
\* four being counted as 'uncertain'.
C29_PatternCountsAreConsistent ==
    (pattern_pc = "analyzed" /\ pattern_result.success)
    =>  LET analysis == pattern_result.pattern_analysis
            detections == analysis.individual_detections
            counts == analysis.pattern_counts
        IN  /\ analysis.total_patterns_detected = Len(merged_bboxes)
            /\ Len(detections) = Len(merged_bboxes)
            /\ \A i \in 1..Len(detections) : detections[i].bbox = merged_bboxes[i]
            /\ DOMAIN counts = {"bipolar-circle", "radial-cross", "uncertain", "error"}
            /\ \A name \in DOMAIN counts :
                  counts[name] = Cardinality({i \in 1..Len(detections) :
                                                Bucket(detections[i].class) = name})
            /\ analysis.total_patterns_detected
                  = counts["bipolar-circle"] + counts["radial-cross"]
                    + counts["uncertain"] + counts["error"]
            /\ analysis.circular_patterns = counts["bipolar-circle"]
            /\ analysis.cross_patterns = counts["radial-cross"]
            /\ analysis.uncertain_patterns = counts["uncertain"]

\* three detections: a circle, a label the mapping does not hold, and a
\* classification that raised
C29_Witness ==
    /\ pattern_pc = "analyzed"
    /\ pattern_result.success
    /\ pattern_result.pattern_analysis.total_patterns_detected = 3
    /\ pattern_result.pattern_analysis.individual_detections[1].class = "bipolar-circle"
    /\ pattern_result.pattern_analysis.individual_detections[2].class = "class_2"
    /\ pattern_result.pattern_analysis.individual_detections[3].class = "error"
    /\ pattern_result.pattern_analysis.pattern_counts
          = [name \in {"bipolar-circle", "radial-cross", "uncertain", "error"} |->
                IF name = "radial-cross" THEN 0 ELSE 1]

\* the hemoglobin requests that have returned with the given outcome
HemoglobinRequests(outcome) ==
    {i \in 1..Len(requests) : /\ requests[i].service = "nail_hemoglobin"
                              /\ requests[i].pc = outcome}

\* C30: after any sequence of hemoglobin requests, a set _models_initialized
\* flag means both the nail detector and the hemoglobin predictor are held;
\* requests whose initialization failed leave the flag false, each of them
\* returned the success = false dict and no model, and a request that
\* follows them loads again: the flag is set by a request that built both.
C30_FlagMeansBothModelsAreLoaded ==
    /\ models_initialized =>
          /\ loaded = {"nail_detector", "hemoglobin_predictor"}
          /\ instance["nail_detector"] > 0
          /\ instance["hemoglobin_predictor"] > 0
          /\ load_count["hemoglobin_predictor"] = 1
          /\ HemoglobinRequests("initialized") # {}
    /\ HemoglobinRequests("initialized") = {} => ~models_initialized
    /\ HemoglobinRequests("failed") # {} =>
          /\ analysis_result # NoValue
          /\ analysis_result.success = FALSE
          /\ analysis_result.message = "Analysis failed"
    /\ \A i \in HemoglobinRequests("failed") : requests[i].got = NoValue
    /\ \A i \in HemoglobinRequests("initialized") :
          /\ models_initialized
          /\ requests[i].got["nail_detector"] = instance["nail_detector"]
          /\ requests[i].got["hemoglobin_predictor"] = instance["hemoglobin_predictor"]
    /\ load_count["nail_detector"]
          <= Cardinality(HemoglobinRequests("failed")) + 1
    /\ \A w \in {"nail_detector", "hemoglobin_predictor"} :
          load_count[w] > 0 => HemoglobinRequests("failed")
                               \cup HemoglobinRequests("initialized") # {}

\* the predictor raised on the first request, after the nail detector was
\* built; the second request built both and set the flag
C30_Witness ==
    /\ models_initialized
    /\ HemoglobinRequests("failed") # {}
    /\ HemoglobinRequests("initialized") # {}
    /\ analysis_result # NoValue
    /\ ~analysis_result.success
    /\ analysis_result.reason = "hemoglobin predictor raises"
    /\ load_count["nail_detector"] = 2
    /\ load_count["hemoglobin_predictor"] = 1

====
